---- MODULE Spec2Model ----
(***************************************************************************)
(* Model of the bank-statement line parsing and reconciliation engine:     *)
(* the NMB and CRDB line parsers and parseTransactions                     *)
(* (src/utils/transactionParser.ts), the customer-mapping helpers          *)
(* (src/utils/customerMappingService.ts), the identity resolver of         *)
(* handleDataSubmit (src/components/AppLayout.tsx) and the de-duplicating  *)
(* saveBatchToDatabase (databaseService.ts, latest revision).              *)
(*                                                                         *)
(* A JavaScript string is a sequence of one-character strings; the empty   *)
(* string is << >>.  Positions are 1-based; a match is reported as the     *)
(* position just after its last character, 0 meaning "no match".           *)
(***************************************************************************)
EXTENDS Integers, Sequences, FiniteSets, TLC

VARIABLES
    pc,          \* position of the running operation
    bankType,    \* 'NMB' | 'CRDB'
    \* one call of a line parser
    line,        \* argument of the line parser
    parsed,      \* record returned by the line parser, NoTx before the call
    \* one call of parseTransactions
    rawData,           \* the pasted statement text
    customerMappings,  \* CustomerMapping[] of customerMappingService
    lines,             \* rawData.split('\n').filter(line => line.trim())
    idx,               \* position of the for..of loop in lines
    successful,        \* ParsedTransaction[]
    failed,            \* ParsedTransaction[]
    successfulSrc,     \* history: for each element of successful, the
                       \* position in lines of the line it was parsed from
    failedSrc,         \* history: the same for failed
    result,            \* the ParseResult returned, NoResult before
    \* saveBatchToDatabase and the record store
    store,             \* table parsed_transactions: the rows, oldest first
    batches,           \* table transaction_batches: the rows, oldest first
    calls,             \* for each call of saveBatchToDatabase its local
                       \* variables, the request it awaits and the history
                       \* of its answered requests
    \* AppLayout: the component's state
    appMappings,       \* useState customerMappings (rows of customer_mappings)
    parseResult,       \* useState parseResult, NoResult for null
    transactions,      \* useState transactions: the list shown and exported
    dataSubmit,        \* the call of handleDataSubmit in progress
    cloudSave,         \* the ParseResult last handed to saveBatchToDatabase
                       \* by handleSaveToCloud, NoResult if none
    exported,          \* the list last handed to downloadExcel, << >> if none
    \* customerMappingService: the cache of the customer mappings
    now,               \* Date.now(), in units of which CACHE_DURATION is a few
    localStorage,      \* the items customer_mappings_cache and _cache_expiry
    mappingsCall,      \* the call of fetchCustomerMappings under way or ended
    cachedAt           \* the time of the last cacheMappings since the cache
                       \* was last cleared, -1 if none

lineVars == <<line, parsed>>
parseVars == <<rawData, customerMappings, lines, idx, successful, failed,
               successfulSrc, failedSrc, result>>
saveVars == <<store, batches, calls>>
appVars == <<appMappings, parseResult, transactions, dataSubmit, cloudSave,
            exported>>
cacheVars == <<now, localStorage, mappingsCall, cachedAt>>
vars == <<pc, bankType, lineVars, parseVars, saveVars, appVars, cacheVars>>

----------------------------------------------------------------------------
(* Character classes of the regular expressions *)

Digit == {"0","1","2","3","4","5","6","7","8","9"}
UpperSeq == <<"A","B","C","D","E","F","G","H","I","J","K","L","M",
              "N","O","P","Q","R","S","T","U","V","W","X","Y","Z">>
LowerSeq == <<"a","b","c","d","e","f","g","h","i","j","k","l","m",
              "n","o","p","q","r","s","t","u","v","w","x","y","z">>
Upper == {UpperSeq[k] : k \in 1..26}
Lower == {LowerSeq[k] : k \in 1..26}
Alpha == Upper \cup Lower
Space == {" ", "\t", "\n"}
AlNum == Alpha \cup Digit
WordCh == AlNum \cup {"_"}
DigitComma == Digit \cup {","}
AlphaSpace == Alpha \cup Space

(* String.prototype.toLowerCase, one character *)
LowerChar(c) ==
    IF c \in Upper THEN LowerSeq[CHOOSE k \in 1..26 : UpperSeq[k] = c] ELSE c

(* String.prototype.toUpperCase, one character *)
UpperChar(c) ==
    IF c \in Lower THEN UpperSeq[CHOOSE k \in 1..26 : LowerSeq[k] = c] ELSE c

toLowerCase(s) == [k \in 1..Len(s) |-> LowerChar(s[k])]
toUpperCase(s) == [k \in 1..Len(s) |-> UpperChar(s[k])]

(* the character at position i, "" past either end *)
At(s, i) == IF i \in 1..Len(s) THEN s[i] ELSE ""

(* greedy run: first position >= i whose character is not in class C *)
RECURSIVE RunEnd(_, _, _)
RunEnd(s, i, C) == IF At(s, i) \in C THEN RunEnd(s, i + 1, C) ELSE i

(* last position <= i whose character is not in class C (0 if none) *)
RECURSIVE RunStart(_, _, _)
RunStart(s, i, C) == IF At(s, i) \in C THEN RunStart(s, i - 1, C) ELSE i

(* literal w at position i, case-sensitive / case-insensitive *)
LitAt(s, i, w) ==
    /\ i >= 1
    /\ i + Len(w) - 1 <= Len(s)
    /\ \A k \in 1..Len(w) : s[i + k - 1] = w[k]

LitAtI(s, i, w) ==
    /\ i >= 1
    /\ i + Len(w) - 1 <= Len(s)
    /\ \A k \in 1..Len(w) : LowerChar(s[i + k - 1]) = LowerChar(w[k])

(* a trim that strips blanks only, leaving tabs and line breaks in place *)
trimBlanksOnly(s) ==
    LET a == RunEnd(s, 1, {" "})
        b == RunStart(s, Len(s), {" "})
    IN  IF a > b THEN << >> ELSE SubSeq(s, a, b)

(* String.prototype.trim *)
trim(s) ==
    LET a == RunEnd(s, 1, Space)
        b == RunStart(s, Len(s), Space)
    IN  IF a > b THEN << >> ELSE SubSeq(s, a, b)

(* String.prototype.includes *)
includes(s, w) == \E i \in 1..Len(s) : LitAt(s, i, w)

(* a replacement that leaves the white space as it is *)
KeepSpace(s, i) == s

(* s.replace(/\s+/g, ' ') *)
RECURSIVE CollapseSpace(_, _)
CollapseSpace(s, i) ==
    IF i > Len(s) THEN << >>
    ELSE IF s[i] \in Space
         THEN <<" ">> \o CollapseSpace(s, RunEnd(s, i, Space))
         ELSE <<s[i]>> \o CollapseSpace(s, i + 1)

(* s.replace(/\./g, '/') *)
DotsToSlashes(s) == [k \in 1..Len(s) |-> IF s[k] = "." THEN "/" ELSE s[k]]

(* smallest element of a non-empty set of positions, 0 for the empty set  *)
(* (String.prototype.match scans start positions left to right)           *)
Leftmost(S) == IF S = {} THEN 0 ELSE CHOOSE i \in S : \A j \in S : i <= j

----------------------------------------------------------------------------
(* Regular expressions of parseTransactionLine (NMB).  Each XxxAt(s, i)    *)
(* is the end of the match that starts at position i, or 0.                *)

(* /(\d{1,2}\s+[A-Za-z]{3}\s+\d{4})/ *)
datePatternAt(s, i) ==
    LET d == IF At(s, i + 1) \in Digit THEN i + 2 ELSE i + 1
        w == RunEnd(s, d, Space)
        x == RunEnd(s, w + 3, Space)
    IN  IF /\ At(s, i) \in Digit
           /\ w > d
           /\ \A k \in 0..2 : At(s, w + k) \in Alpha
           /\ x > w + 3
           /\ \A k \in 0..3 : At(s, x + k) \in Digit
        THEN x + 4 ELSE 0

(* /Description\s+(\d+)/i : <<start of the digits, end>> *)
descriptionPatternAt(s, i) ==
    LET w == i + 11
        g == RunEnd(s, w, Space)
        e == RunEnd(s, g, Digit)
    IN  IF /\ LitAtI(s, i, <<"D","e","s","c","r","i","p","t","i","o","n">>)
           /\ g > w
           /\ e > g
        THEN e ELSE 0

descriptionDigits(s, i) == RunEnd(s, i + 11, Space)

(* /@(\d+)@/ *)
userIdPatternAt(s, i) ==
    LET e == RunEnd(s, i + 1, Digit)
    IN  IF At(s, i) = "@" /\ e > i + 1 /\ At(s, e) = "@" THEN e + 1 ELSE 0

(* the lazy group ([A-Z\s]+?) starting at g, followed by (?:\t|$): the    *)
(* shortest non-empty run of letters and white space after which a tab or *)
(* the end of the string follows; result is the end of the group, 0 if    *)
(* none                                                                    *)
RECURSIVE LazyNameEnd(_, _, _)
LazyNameEnd(s, g, e) ==
    IF At(s, e - 1) \notin AlphaSpace THEN 0
    ELSE IF e = Len(s) + 1 \/ At(s, e) = "\t" THEN e
    ELSE LazyNameEnd(s, g, e + 1)

(* /=>\s*([A-Z\s]+?)(?:\t|$)/i : \s* is greedy and gives characters back  *)
(* one at a time; the result is <<start, end>> of the captured group      *)
RECURSIVE userNameGroup(_, _, _)
userNameGroup(s, i, g) ==
    IF g < i + 2 THEN <<0, 0>>
    ELSE LET e == IF g <= Len(s) THEN LazyNameEnd(s, g, g + 1) ELSE 0
         IN  IF e # 0 THEN <<g, e>> ELSE userNameGroup(s, i, g - 1)

userNamePatternAt(s, i) ==
    IF LitAt(s, i, <<"=",">">>)
    THEN userNameGroup(s, i, RunEnd(s, i + 2, Space))[2]
    ELSE 0

(* the numeric group (\d+(?:,\d{3})*(?:\.\d{2})?) starting at i: its end  *)
RECURSIVE CommaGroupsEnd(_, _)
CommaGroupsEnd(s, i) ==
    IF At(s, i) = "," /\ \A k \in 1..3 : At(s, i + k) \in Digit
    THEN CommaGroupsEnd(s, i + 4) ELSE i

NumEnd(s, i) ==
    LET c == CommaGroupsEnd(s, RunEnd(s, i, Digit))
    IN  IF At(s, i) \notin Digit THEN 0
        ELSE IF At(s, c) = "." /\ At(s, c + 1) \in Digit /\ At(s, c + 2) \in Digit
             THEN c + 3 ELSE c

TZS == <<"T","Z","S">>

(* /\t(\d+(?:,\d{3})*(?:\.\d{2})?)\t+(?:TZS|$)/i *)
amountPatternAt(s, i) ==
    LET e == NumEnd(s, i + 1)
        t == RunEnd(s, e, {"\t"})
    IN  IF /\ At(s, i) = "\t"
           /\ e # 0
           /\ t > e
           /\ (LitAtI(s, t, TZS) \/ t = Len(s) + 1)
        THEN (IF LitAtI(s, t, TZS) THEN t + 3 ELSE t) ELSE 0

(* /\t(\d+(?:,\d{3})*(?:\.\d{2})?)\s*\t*\s*TZS/i *)
altAmountPatternAt(s, i) ==
    LET e == NumEnd(s, i + 1)
        w == RunEnd(s, e, Space)
    IN  IF At(s, i) = "\t" /\ e # 0 /\ LitAtI(s, w, TZS) THEN w + 3 ELSE 0

(* /(\d+(?:,\d{3})*(?:\.\d{2})?)\s*(?:\t|TZS)/ : \s* is greedy, so the    *)
(* alternative \t can only match a tab that \s* gives back                *)
depositPatternAt(s, i) ==
    LET e == NumEnd(s, i)
        w == RunEnd(s, e, Space)
    IN  IF e = 0 THEN 0
        ELSE IF LitAt(s, w, TZS) THEN w + 3
        ELSE IF \E k \in e..(w - 1) : s[k] = "\t"
             THEN 1 + (CHOOSE k \in e..(w - 1) :
                          s[k] = "\t" /\ \A j \in (k + 1)..(w - 1) : s[j] # "\t")
        ELSE 0

(* /\d{3}\s*-\s*([^-]+)\s*-/ : <<start, end>> of the captured group; the  *)
(* group is greedy up to the next hyphen and the \s* before it gives      *)
(* white space back when nothing else is left for the group               *)
productNameGroup(s, i) ==
    LET h == RunEnd(s, i + 3, Space)
        g == RunEnd(s, h + 1, Space)
        RECURSIVE ToHyphen(_)
        ToHyphen(k) == IF k > Len(s) \/ s[k] = "-" THEN k ELSE ToHyphen(k + 1)
        e == ToHyphen(h + 1)
    IN  IF /\ \A k \in 0..2 : At(s, i + k) \in Digit
           /\ At(s, h) = "-"
           /\ e <= Len(s)
           /\ e > h + 1
        THEN <<(IF g < e THEN g ELSE e - 1), e>> ELSE <<0, 0>>

productNamePatternAt(s, i) == productNameGroup(s, i)[2]

----------------------------------------------------------------------------
(* ParsedTransaction.  Extracted fields are character sequences;           *)
(* paymentMethod and errorMessage range over fixed literals and are kept   *)
(* as strings ("" the empty string, "undefined" an absent errorMessage).   *)

NMBCollectionAC == <<"N","M","B"," ","C","o","l","l","e","c","t","i","o","n"," ","A","C">>
CRDBCollectionAC == <<"C","R","D","B"," ","C","o","l","l","e","c","t","i","o","n"," ","A","C">>

NoTx == [isValid |-> FALSE, errorMessage |-> "none"]

(* the all-empty record of parseTransactionLine's early return and catch, *)
(* and of createEmptyTransaction                                           *)
createEmptyTransaction(ln, errorMessage) ==
    [paymentDate |-> << >>, customer |-> << >>, paymentMethod |-> "",
     depositToAccountName |-> << >>, invoiceNo |-> << >>, journalNo |-> << >>,
     amount |-> << >>, referenceMemo |-> << >>, countryCode |-> << >>,
     exchangeRate |-> << >>, rawLine |-> ln, isValid |-> FALSE,
     errorMessage |-> errorMessage]

(* an amount taken from the deposit pattern first, then from the others *)
nmbAmountDepositFirst(t) ==
    LET a == Leftmost({i \in 1..Len(t) : amountPatternAt(t, i) # 0})
        b == Leftmost({i \in 1..Len(t) : altAmountPatternAt(t, i) # 0})
        c == Leftmost({i \in 1..Len(t) : depositPatternAt(t, i) # 0})
    IN  IF c # 0 THEN SubSeq(t, c, NumEnd(t, c) - 1)
        ELSE IF a # 0 THEN SubSeq(t, a + 1, NumEnd(t, a + 1) - 1)
        ELSE IF b # 0 THEN SubSeq(t, b + 1, NumEnd(t, b + 1) - 1)
        ELSE << >>

(* the amount of an NMB line: three patterns, each tried only while the   *)
(* amount is still empty                                                   *)
nmbAmount(t) ==
    LET a == Leftmost({i \in 1..Len(t) : amountPatternAt(t, i) # 0})
        b == Leftmost({i \in 1..Len(t) : altAmountPatternAt(t, i) # 0})
        c == Leftmost({i \in 1..Len(t) : depositPatternAt(t, i) # 0})
        amount1 == IF a # 0 THEN SubSeq(t, a + 1, NumEnd(t, a + 1) - 1) ELSE << >>
        amount2 == IF amount1 # << >> THEN amount1
                   ELSE IF b # 0 THEN SubSeq(t, b + 1, NumEnd(t, b + 1) - 1)
                   ELSE << >>
    IN  IF amount2 # << >> THEN amount2
        ELSE IF c # 0 THEN SubSeq(t, c, NumEnd(t, c) - 1)
        ELSE << >>

nmbPaymentMethod(t) ==
    LET l == toLowerCase(t)
    IN  IF includes(l, <<"t","r","a","n","s","f","e","r">>) THEN "Transfer"
        ELSE IF includes(l, <<"m","o","b","i","l","e">>) THEN "Mobile Banking"
        ELSE IF includes(l, <<"a","t","m">>) THEN "ATM"
        ELSE IF includes(l, <<"c","h","e","q","u","e">>) THEN "Cheque"
        ELSE "Cash"

(* a user id that prefers the name to the digits *)
nmbUserIdNameFirst(userIdMatch, userName) ==
    IF userName # << >> THEN userName ELSE userIdMatch

(* lines 65 and 72-74: the digits, or the name when there are no digits *)
nmbUserId(userIdMatch, userName) ==
    IF userIdMatch = << >> /\ userName # << >> THEN userName ELSE userIdMatch

(* line 120: !!(invoiceNo || amount || paymentDate) *)
nmbIsValid(invoiceNo, amount, paymentDate) ==
    invoiceNo # << >> \/ amount # << >> \/ paymentDate # << >>

parseTransactionLine(ln) ==
    LET trimmedLine == trim(ln)
        d == Leftmost({i \in 1..Len(trimmedLine) : datePatternAt(trimmedLine, i) # 0})
        paymentDate ==
            IF d # 0
            THEN trim(CollapseSpace(
                     SubSeq(trimmedLine, d, datePatternAt(trimmedLine, d) - 1), 1))
            ELSE << >>
        r == Leftmost({i \in 1..Len(trimmedLine) : descriptionPatternAt(trimmedLine, i) # 0})
        invoiceNo ==
            IF r # 0
            THEN SubSeq(trimmedLine, descriptionDigits(trimmedLine, r),
                        descriptionPatternAt(trimmedLine, r) - 1)
            ELSE << >>
        u == Leftmost({i \in 1..Len(trimmedLine) : userIdPatternAt(trimmedLine, i) # 0})
        userIdMatch ==
            IF u # 0
            THEN SubSeq(trimmedLine, u + 1, userIdPatternAt(trimmedLine, u) - 2)
            ELSE << >>
        n == Leftmost({i \in 1..Len(trimmedLine) : userNamePatternAt(trimmedLine, i) # 0})
        ng == userNameGroup(trimmedLine, n, RunEnd(trimmedLine, n + 2, Space))
        userName ==
            IF n # 0 THEN trim(SubSeq(trimmedLine, ng[1], ng[2] - 1)) ELSE << >>
        userId == nmbUserId(userIdMatch, userName)
        amount == nmbAmount(trimmedLine)
        p == Leftmost({i \in 1..Len(trimmedLine) : productNamePatternAt(trimmedLine, i) # 0})
        pg == productNameGroup(trimmedLine, p)
        depositToAccountName ==
            IF p # 0 THEN trim(SubSeq(trimmedLine, pg[1], pg[2] - 1))
            ELSE NMBCollectionAC
        referenceMemo == IF userId # << >> THEN userId ELSE invoiceNo
        isValid == nmbIsValid(invoiceNo, amount, paymentDate)
    IN  IF trimmedLine = << >>
        THEN createEmptyTransaction(ln, "Empty line")
        ELSE [paymentDate |-> paymentDate, customer |-> userName,
              paymentMethod |-> nmbPaymentMethod(trimmedLine),
              depositToAccountName |-> depositToAccountName,
              invoiceNo |-> invoiceNo, journalNo |-> << >>,
              amount |-> amount, referenceMemo |-> referenceMemo,
              countryCode |-> << >>, exchangeRate |-> << >>,
              rawLine |-> trimmedLine, isValid |-> isValid,
              errorMessage |-> IF isValid THEN "undefined"
                               ELSE "Could not extract required fields"]

----------------------------------------------------------------------------
(* Regular expressions of parseCRDBTransactionLine *)

(* /(\d{2}\.\d{2}\.\d{4})/ *)
crdbDatePatternAt(s, i) ==
    IF /\ \A k \in {0, 1, 3, 4, 6, 7, 8, 9} : At(s, i + k) \in Digit
       /\ At(s, i + 2) = "."
       /\ At(s, i + 5) = "."
    THEN i + 10 ELSE 0

(* /([\d,]+\.\d{2})/ *)
amountsRegexAt(s, i) ==
    LET e == RunEnd(s, i, DigitComma)
    IN  IF /\ e > i
           /\ At(s, e) = "."
           /\ At(s, e + 1) \in Digit
           /\ At(s, e + 2) \in Digit
        THEN e + 3 ELSE 0

(* [...s.matchAll(amountsRegex)].map(m => m[1]) : the matches from        *)
(* position i on, left to right, each search resuming where the previous  *)
(* match ended                                                             *)
RECURSIVE matchAllAmounts(_, _)
matchAllAmounts(s, i) ==
    LET m == Leftmost({j \in i..Len(s) : amountsRegexAt(s, j) # 0})
    IN  IF m = 0 THEN << >>
        ELSE <<SubSeq(s, m, amountsRegexAt(s, m) - 1)>>
                 \o matchAllAmounts(s, amountsRegexAt(s, m))

(* a selection that takes the third number from the end *)
crdbSelectAmountThirdLast(allAmounts) ==
    IF Len(allAmounts) >= 3 THEN allAmounts[Len(allAmounts) - 2]
    ELSE IF Len(allAmounts) >= 1 THEN allAmounts[Len(allAmounts)]
    ELSE << >>

(* a selection that always takes the last collected number *)
crdbSelectAmountLast(allAmounts) ==
    IF Len(allAmounts) >= 1 THEN allAmounts[Len(allAmounts)] ELSE << >>

(* lines 173-182: the amount chosen among the collected numbers *)
crdbSelectAmount(allAmounts) ==
    IF Len(allAmounts) >= 2
    THEN IF Len(allAmounts) >= 3
         THEN allAmounts[Len(allAmounts) - 2 + 1]
         ELSE allAmounts[Len(allAmounts) - 1 + 1]
    ELSE IF Len(allAmounts) = 1 THEN allAmounts[0 + 1]
    ELSE << >>

(* /:(\d{10,14})\s+/ *)
accountPatternAt(s, i) ==
    LET e == RunEnd(s, i + 1, Digit)
    IN  IF /\ At(s, i) = ":"
           /\ e - (i + 1) >= 10
           /\ e - (i + 1) <= 14
           /\ At(s, e) \in Space
        THEN RunEnd(s, e, Space) ELSE 0

(* /REF:([a-zA-Z0-9]+)/ *)
refPatternAt(s, i) ==
    LET e == RunEnd(s, i + 4, AlNum)
    IN  IF LitAt(s, i, <<"R","E","F",":">>) /\ e > i + 4 THEN e ELSE 0

(* /:([a-zA-Z\s]+):(?=\d{10,14})/ : the end of the match is the position  *)
(* after the second colon, the look-ahead consumes nothing                *)
namePatternAt(s, i) ==
    LET e == RunEnd(s, i + 1, AlphaSpace)
    IN  IF /\ At(s, i) = ":"
           /\ e > i + 1
           /\ At(s, e) = ":"
           /\ RunEnd(s, e + 1, Digit) - (e + 1) >= 10
        THEN e + 1 ELSE 0

(* a validity test that looks at the date alone *)
crdbIsValidDateOnly(amount, paymentDate) == paymentDate # << >>

(* a validity test that wants both fields instead of either *)
crdbIsValidBoth(amount, paymentDate) == amount # << >> /\ paymentDate # << >>

(* line 199: !!(amount || paymentDate) *)
crdbIsValid(amount, paymentDate) == amount # << >> \/ paymentDate # << >>

parseCRDBTransactionLine(ln) ==
    LET trimmedLine == trim(ln)
        d == Leftmost({i \in 1..Len(trimmedLine) : crdbDatePatternAt(trimmedLine, i) # 0})
        paymentDate ==
            IF d # 0 THEN DotsToSlashes(SubSeq(trimmedLine, d, d + 9)) ELSE << >>
        allAmounts == matchAllAmounts(trimmedLine, 1)
        amount == crdbSelectAmount(allAmounts)
        a == Leftmost({i \in 1..Len(trimmedLine) : accountPatternAt(trimmedLine, i) # 0})
        accountNumber ==
            IF a # 0
            THEN SubSeq(trimmedLine, a + 1, RunEnd(trimmedLine, a + 1, Digit) - 1)
            ELSE << >>
        r == Leftmost({i \in 1..Len(trimmedLine) : refPatternAt(trimmedLine, i) # 0})
        invoiceNo ==
            IF r # 0 THEN SubSeq(trimmedLine, r + 4, refPatternAt(trimmedLine, r) - 1)
            ELSE << >>
        n == Leftmost({i \in 1..Len(trimmedLine) : namePatternAt(trimmedLine, i) # 0})
        customer ==
            IF n # 0
            THEN trim(SubSeq(trimmedLine, n + 1, namePatternAt(trimmedLine, n) - 2))
            ELSE << >>
        isValid == crdbIsValid(amount, paymentDate)
    IN  IF trimmedLine = << >>
        THEN createEmptyTransaction(ln, "Empty line")
        ELSE [paymentDate |-> paymentDate, customer |-> customer,
              paymentMethod |-> "Transfer",
              depositToAccountName |-> CRDBCollectionAC,
              invoiceNo |-> invoiceNo, journalNo |-> << >>,
              amount |-> amount,
              referenceMemo |-> IF accountNumber # << >> THEN accountNumber
                                ELSE invoiceNo,
              countryCode |-> << >>, exchangeRate |-> << >>,
              rawLine |-> trimmedLine, isValid |-> isValid,
              errorMessage |-> IF isValid THEN "undefined"
                  ELSE "Could not extract required fields from CRDB line"]

----------------------------------------------------------------------------
(* Inputs of the line parsers: every concatenation of at most MaxFrags    *)
(* fragments of statement text.                                            *)

MaxFrags == 3

Frags == {
    <<" ">>,
    <<"\t">>,
    <<"7"," ","J","a","n"," "," ","2","0","2","6">>,
    <<"D","e","s","c","r","i","p","t","i","o","n"," ","9","6","3">>,
    <<"@","2","2","4","@">>,
    <<"=",">"," ","V","I","T","U","S">>,
    <<"1","2","5","0","0",".","0","0">>,
    <<"T","Z","S">>,
    <<"2","0",".","0","1",".","2","0","2","6">>,
    <<"R","E","F",":","1","9","b","d">>,
    <<"1","2",",","5","0","0",".","0","0">>,
    <<":","H","A","S","S","A","N",":">>,
    <<"9","6","3","3","3","0","0","0","0","3","9","6">>,
    <<"1","0","1"," ","-"," ","A","T","M"," ","-">>,
    <<"\t","7"," ","T","Z","S">>,
    <<"\t","5","0","0","\t","T","Z","S">>
}

RECURSIVE Concats(_)
Concats(n) ==
    IF n = 0 THEN {<< >>}
    ELSE LET S == Concats(n - 1)
         IN  S \cup {s \o f : s \in S, f \in Frags}

Lines == Concats(MaxFrags)

BankTypes == {"NMB", "CRDB"}

----------------------------------------------------------------------------
(* The line parsers on their own: one call of the parser selected by      *)
(* bankType on one line.                                                   *)

NoResult == [bankType |-> "none"]

(* the calls of saveBatchToDatabase that are followed *)
Calls == {1, 2}

NoRequest == [op |-> "none"]

(* the local state of a call that has not started *)
IdleCall ==
    [pc |-> "idle", result |-> NoResult, invoiceNos |-> << >>, i |-> 0,
     existingIds |-> {}, transactionsToSave |-> << >>, skippedCount |-> 0,
     batchId |-> 0, allTransactions |-> << >>, j |-> 0,
     awaiting |-> NoRequest, history |-> << >>,
     ret |-> [batchId |-> 0, error |-> "pending", skippedCount |-> 0]]

(* getItem of a key that is not stored: null *)
NoItem == << >>

(* no call of fetchCustomerMappings made yet *)
IdleFetch ==
    [pc |-> "idle", forceRefresh |-> FALSE, at |-> 0, seen |-> -1,
     fetched |-> FALSE, failed |-> "none", held |-> NoItem, ret |-> << >>]

CacheIdle ==
    /\ now = 0
    /\ localStorage = [cache |-> NoItem, expiry |-> NoItem]
    /\ mappingsCall = IdleFetch
    /\ cachedAt = -1

(* no call of handleDataSubmit in progress *)
IdleSubmit == [pc |-> "idle", result |-> NoResult, customerMappings |-> << >>]

AppIdle ==
    /\ appMappings = << >>
    /\ parseResult = NoResult
    /\ transactions = << >>
    /\ dataSubmit = IdleSubmit
    /\ cloudSave = NoResult
    /\ exported = << >>

SaveIdle ==
    /\ store = << >>
    /\ batches = << >>
    /\ calls = [c \in Calls |-> IdleCall]

LineIdle == line = << >> /\ parsed = NoTx

ParseIdle ==
    /\ rawData = << >>
    /\ customerMappings = << >>
    /\ lines = << >>
    /\ idx = 0
    /\ successful = << >>
    /\ failed = << >>
    /\ successfulSrc = << >>
    /\ failedSrc = << >>
    /\ result = NoResult

InitLine ==
    /\ line \in Lines
    /\ bankType \in BankTypes
    /\ parsed = NoTx
    /\ pc = "call"
    /\ ParseIdle
    /\ SaveIdle
    /\ AppIdle
    /\ CacheIdle

CallParseTransactionLine ==
    /\ pc = "call"
    /\ bankType = "NMB"
    /\ parsed' = parseTransactionLine(line)
    /\ pc' = "returned"
    /\ UNCHANGED <<line, bankType, parseVars, saveVars, appVars, cacheVars>>

CallParseCRDBTransactionLine ==
    /\ pc = "call"
    /\ bankType = "CRDB"
    /\ parsed' = parseCRDBTransactionLine(line)
    /\ pc' = "returned"
    /\ UNCHANGED <<line, bankType, parseVars, saveVars, appVars, cacheVars>>

NextLine == CallParseTransactionLine \/ CallParseCRDBTransactionLine

SpecLine == InitLine /\ [][NextLine]_vars

----------------------------------------------------------------------------
(* Lines in the layout of the bank statements: the two sample lines of    *)
(* testRegex.js, with the date, the identifiers, the name, the amounts    *)
(* and the white space of the columns varied.                             *)

(* one NMB line and the values its columns were written with; the text   *)
(* between the columns is that of the sample line                         *)
NMBCase(day, gap, digits, ref, marks, name, amount, tabs, balance) ==
    LET date == day \o gap \o <<"J","a","n">> \o gap \o <<"2","0","2","6">>
        NMBBranch ==
            <<"\t","\t","1","0","1"," ","-"," ","N","M","B"," ","H","e","a","d"," ",
              "O","f","f","i","c","e"," ","-"," ","C","a","s","h"," ","D","e","p",
              "o","s","i","t"," ","A","g","e","n","c","y"," ","b","a","n","k","i",
              "n","g"," ","-"," ","2","0","0","1"," ","1","2"," ","1","7"," ","3",
              "5"," ","a","g","e","n","c","y"," ","@">>
        NMBTerminal ==
            <<"@","T","P","S","9","0","0"," ","T","r","x"," ","I","D"," ","P","S",
              "2","0","8","5","5","9","4","2","4","2"," "," ","T","e","r"," ","I",
              "D"," ","2","2","4","5","1","0","5","6","2","7"," "," "," ","D","e",
              "s","c","r","i","p","t","i","o","n"," ">>
        NMBFrom ==
            <<" ","F","r","o","m"," ","S","A","V","C","O","M"," ","L","I","M","I",
              "T","E","D"," ","C","O","L","L","E","C","T","I","O","N"," ","A","C",
              "C"," ","=",">"," ">>
        NMBReceipt ==
            <<"\t","1","0","1","A","G","D","1","2","6","0","2","0","A","4","O","E",
              "\t">>
    IN  [line |-> date \o <<"\t">> \o date \o NMBBranch \o digits
                  \o NMBTerminal \o ref \o marks \o NMBFrom \o name
                  \o NMBReceipt \o amount \o tabs \o TZS \o <<" ">> \o balance,
         date |-> day \o <<" ","J","a","n"," ","2","0","2","6">>,
         ref |-> ref, account |-> digits, name |-> name,
         amount |-> amount, balance |-> balance]

NMBCases ==
    {NMBCase(day, gap, digits, ref, marks, name, amount, tabs, balance) :
        day \in {<<"7">>, <<"2","0">>},
        gap \in {<<" ">>, <<" "," ">>},
        digits \in {<<"2","2","4","1","0","0","6","3","7","8","6">>,
                    <<"5">>},
        ref \in {<<"9","6","3","3","3","0","0","0","0","1","4","1">>,
                 <<"4","2">>},
        marks \in {<< >>, <<"!","!">>},
        name \in {<<"V","I","T","U","S"," ","V","I","C","E","N","T"," ",
                    "I","T","A","B","A">>,
                  <<"A","N","N","A">>},
        amount \in {<<"1","2","5","0","0",".","0","0">>,
                    <<"1","2",",","5","0","0",".","0","0">>,
                    <<"0",".","5","0">>,
                    <<"5","0","0">>},
        tabs \in {<<"\t">>, <<"\t","\t">>},
        balance \in {<<"3","8","2","6","0","0","0",".","0","0">>,
                     <<"3",",","8","2","6",",","0","0","0",".","0","0">>}}

(* one CRDB line and the values its columns were written with; each      *)
(* monetary column stands after a tab and a space                         *)
CRDBCase(date, ref, name, account, amounts) ==
    LET CRDBNarration ==
            <<" ","A","G","E","N","C","Y"," ","F","T"," ","F","R","O","M",
              " ","F","A","N","U","E","L"," ","J","A","L","I","S","O","N",
              " ","M","K","U","P","A","L","A"," ","T","O"," ","F","R","A",
              "N","K","A","B","1","7","6","8","9","0","6","7","6","8","4",
              "3","5","7","9","4","7","2","5","7",":">>
        Column(k) == <<"\t", " ">> \o amounts[k]
        columns == IF Len(amounts) = 3
                   THEN Column(1) \o Column(2) \o Column(3)
                   ELSE Column(1) \o Column(2)
    IN  [line |-> date \o <<" ","1","3",":","5","9",":","0","0","\t"," ">>
                  \o <<"R","E","F",":">> \o ref \o CRDBNarration \o name
                  \o <<":">> \o account \o <<" ","N","/","A","\t"," ">>
                  \o date \o <<" ","0","0",":","0","0",":","0","0">>
                  \o columns,
         date |-> date, ref |-> ref, name |-> name, account |-> account,
         amounts |-> amounts]

(* debit, credit and balance; or two amounts only *)
CRDBColumns ==
    {<<debit, credit, balance>> :
        debit \in {<<"0",".","0","0">>},
        credit \in {<<"1","2",",","5","0","0",".","0","0">>,
                    <<"7","5","0",".","0","0">>},
        balance \in {<<"4","3","7",",","1","2","9",",","7","8","4",".",
                       "7","8">>,
                     <<"9",".","9","9">>}}
    \cup
    {<<a, b>> :
        a \in {<<"0",".","0","0">>, <<"7","5","0",".","0","0">>},
        b \in {<<"1","2",",","5","0","0",".","0","0">>,
               <<"4","3","7",",","1","2","9",",","7","8","4",".","7","8">>}}

CRDBCases ==
    {CRDBCase(date, ref, name, account, amounts) :
        date \in {<<"2","0",".","0","1",".","2","0","2","6">>,
                  <<"0","1",".","1","2",".","2","0","2","5">>},
        ref \in {<<"1","9","b","d","b","0","f","4","2","a","d","5","7",
                   "8","1","8">>,
                 <<"A","1">>},
        name \in {<<"H","A","S","S","A","N"," ","S","A","I","D","I"," ",
                    "N","G","U","N","D","E">>,
                  <<"A","N","N","A">>},
        account \in {<<"9","6","3","3","3","0","0","0","0","3","9","6">>,
                     <<"1","2","3","4","5","6","7","8","9","0">>},
        amounts \in CRDBColumns}

InitLayout ==
    /\ bankType \in BankTypes
    /\ line \in IF bankType = "CRDB" THEN {c.line : c \in CRDBCases}
               ELSE {c.line : c \in NMBCases}
    /\ parsed = NoTx
    /\ pc = "call"
    /\ ParseIdle
    /\ SaveIdle
    /\ AppIdle
    /\ CacheIdle

SpecLayout == InitLayout /\ [][NextLine]_vars

----------------------------------------------------------------------------
(* customerMappingService: look-up of a customer by an embedded member    *)
(* code.  A CustomerMapping is modelled by the two fields the look-up     *)
(* reads, memberId and customerName.                                       *)

(* /\b(MC\d{3}[A-Z]{3})\b/i *)
memberIdPatternAt(s, i) ==
    IF /\ LitAtI(s, i, <<"M","C">>)
       /\ At(s, i - 1) \notin WordCh
       /\ \A k \in 2..4 : At(s, i + k) \in Digit
       /\ \A k \in 5..7 : At(s, i + k) \in Alpha
       /\ At(s, i + 8) \notin WordCh
    THEN i + 8 ELSE 0

extractMemberIdFromDescription(description) ==
    LET m == Leftmost({i \in 1..Len(description) : memberIdPatternAt(description, i) # 0})
    IN  IF m # 0 THEN toUpperCase(SubSeq(description, m, m + 7)) ELSE << >>

(* a look-up that takes the last mapping with the member id *)
findLastByMemberId(memberId, mappings) ==
    LET S == {k \in 1..Len(mappings) : mappings[k].memberId = memberId}
    IN  IF S = {} THEN 0 ELSE CHOOSE k \in S : \A j \in S : j <= k

(* Array.prototype.find: position of the first mapping with the member   *)
(* id, 0 when there is none                                                *)
findByMemberId(memberId, mappings) ==
    Leftmost({k \in 1..Len(mappings) : mappings[k].memberId = memberId})

findCustomerByMemberId(memberId, mappings) ==
    LET k == findByMemberId(memberId, mappings)
    IN  IF k # 0 THEN mappings[k].customerName ELSE << >>

----------------------------------------------------------------------------
(* parseTransactions *)

(* rawData.split('\n') *)
RECURSIVE split(_, _, _)
split(s, i, cur) ==
    IF i > Len(s) THEN <<cur>>
    ELSE IF s[i] = "\n" THEN <<cur>> \o split(s, i + 1, << >>)
    ELSE split(s, i + 1, Append(cur, s[i]))

(* a filter that drops only the lines of length zero *)
keepLineIfNotEmpty(ln) == ln # << >>

(* the filter predicate line => line.trim() *)
keepLine(ln) == trim(ln) # << >>

(* rawData.split('\n').filter(line => line.trim()) *)
splitLines(s) == SelectSeq(split(s, 1, << >>), keepLine)

(* lines 252-262: the customer name of a valid record is replaced by the  *)
(* name mapped to the member code found in its raw line                    *)
enrich(t, mappings) ==
    IF t.isValid /\ Len(mappings) > 0
    THEN LET memberId == extractMemberIdFromDescription(t.rawLine)
             customerName == findCustomerByMemberId(memberId, mappings)
         IN  IF memberId # << >> /\ customerName # << >>
             THEN [t EXCEPT !.customer = customerName]
             ELSE t
    ELSE t

(* an insertion at the front of the list *)
unshift(list, t) == <<t>> \o list

(* Array.prototype.push *)
push(list, t) == Append(list, t)

(* Inputs of parseTransactions: at most MaxLines lines joined by '\n'     *)
MaxLines == 3

StatementLines == {
    << >>,
    <<" ","\t">>,
    <<"x","y","z">>,
    <<"7"," ","J","a","n"," ","2","0","2","6"," ","M","C","2","4","1","e","p","w",
      " ","=",">"," ","V","I","T","U","S">>,
    <<"R","E","F",":","1","9","b","d">>,
    <<"0",".","0","0"," ","m","c","2","4","1","E","P","W">>,
    <<"D","e","s","c","r","i","p","t","i","o","n"," ","9","6","3">>
}

RECURSIVE Joined(_)
Joined(n) ==
    IF n <= 1 THEN StatementLines
    ELSE LET S == Joined(n - 1)
         IN  S \cup {s \o <<"\n">> \o l : s \in S, l \in StatementLines}

RawInputs == Joined(MaxLines)

MappingSets == {
    << >>,
    <<[memberId |-> <<"M","C","2","4","1","E","P","W">>,
       customerName |-> <<"J","O","H","N">>]>>,
    <<[memberId |-> <<"M","C","9","9","9","A","A","A">>,
       customerName |-> <<"M","A","R","Y">>],
      [memberId |-> <<"M","C","2","4","1","E","P","W">>,
       customerName |-> << >>],
      [memberId |-> <<"M","C","2","4","1","E","P","W">>,
       customerName |-> <<"J","O","H","N">>]>>
}

InitParse ==
    /\ pc = "call"
    /\ bankType \in BankTypes
    /\ rawData \in RawInputs
    /\ customerMappings \in MappingSets
    /\ lines = << >>
    /\ idx = 0
    /\ successful = << >>
    /\ failed = << >>
    /\ successfulSrc = << >>
    /\ failedSrc = << >>
    /\ result = NoResult
    /\ LineIdle
    /\ SaveIdle
    /\ AppIdle
    /\ CacheIdle

(* lines 245-247 *)
ParseBegin ==
    /\ pc = "call"
    /\ lines' = splitLines(rawData)
    /\ idx' = 1
    /\ pc' = "loop"
    /\ UNCHANGED <<bankType, lineVars, rawData, customerMappings, successful,
                   failed, successfulSrc, failedSrc, result, saveVars, appVars, cacheVars>>

(* lines 250-262: the record made of one line *)
parseAndEnrich(ln, bank, mappings) ==
    enrich(IF bank = "CRDB" THEN parseCRDBTransactionLine(ln)
           ELSE parseTransactionLine(ln), mappings)

(* lines 249-269: one iteration of the loop *)
ParseLoop ==
    /\ pc = "loop"
    /\ idx <= Len(lines)
    /\ \E e \in {parseAndEnrich(lines[idx], bankType, customerMappings)} :
          IF e.isValid
          THEN /\ successful' = push(successful, e)
               /\ successfulSrc' = Append(successfulSrc, idx)
               /\ UNCHANGED <<failed, failedSrc>>
          ELSE IF trim(lines[idx]) # << >>
          THEN /\ failed' = push(failed, e)
               /\ failedSrc' = Append(failedSrc, idx)
               /\ UNCHANGED <<successful, successfulSrc>>
          ELSE UNCHANGED <<successful, successfulSrc, failed, failedSrc>>
    /\ idx' = idx + 1
    /\ UNCHANGED <<pc, bankType, lineVars, rawData, customerMappings, lines,
                   result, saveVars, appVars, cacheVars>>

(* lines 271-278 *)
ParseReturn ==
    /\ pc = "loop"
    /\ idx > Len(lines)
    /\ result' = [successful |-> successful, failed |-> failed,
                  totalLines |-> Len(lines),
                  successCount |-> Len(successful),
                  failCount |-> Len(failed),
                  bankType |-> bankType]
    /\ pc' = "returned"
    /\ UNCHANGED <<bankType, lineVars, rawData, customerMappings, lines, idx,
                   successful, failed, successfulSrc, failedSrc, saveVars, appVars, cacheVars>>

NextParse == ParseBegin \/ ParseLoop \/ ParseReturn

SpecParse == InitParse /\ [][NextParse]_vars

----------------------------------------------------------------------------
(* Properties of the line parsers, checked under SpecLine *)

Returned == pc = "returned"

NonEmptyMessage(t) == t.errorMessage \notin {"", "undefined", "none"}

WhitespaceOnly(s) == \A k \in 1..Len(s) : s[k] \in Space

(* C6 as stated: for either parser, isValid holds exactly when one of     *)
(* reference id, amount and date is non-empty, and an invalid record      *)
(* carries a non-empty errorMessage.                                       *)
C6_AnyOfThreeBothParsers ==
    Returned =>
        /\ parsed.isValid <=> \/ parsed.invoiceNo # << >>
                              \/ parsed.amount # << >>
                              \/ parsed.paymentDate # << >>
        /\ ~parsed.isValid => NonEmptyMessage(parsed)

(* C6 amended: the NMB parser's isValid holds exactly when one of         *)
(* reference id, amount and date is non-empty; the CRDB parser's isValid  *)
(* holds exactly when amount or date is non-empty, whatever the reference *)
(* id; for both, an invalid record carries a non-empty errorMessage.      *)
C6_ValidityPerParser ==
    Returned =>
        /\ bankType = "NMB" =>
              (parsed.isValid <=> \/ parsed.invoiceNo # << >>
                                  \/ parsed.amount # << >>
                                  \/ parsed.paymentDate # << >>)
        /\ bankType = "CRDB" =>
              (parsed.isValid <=> \/ parsed.amount # << >>
                                  \/ parsed.paymentDate # << >>)
        /\ ~parsed.isValid => NonEmptyMessage(parsed)

(* a CRDB record with a reference id and nothing else, returned invalid *)
C6_Witness ==
    /\ Returned
    /\ bankType = "CRDB"
    /\ parsed.invoiceNo # << >>
    /\ parsed.amount = << >>
    /\ parsed.paymentDate = << >>
    /\ ~parsed.isValid
    /\ NonEmptyMessage(parsed)

(* C7: for an empty or whitespace-only line either parser returns         *)
(* isValid = false, errorMessage 'Empty line' and every extracted field   *)
(* empty.                                                                  *)
C7_EmptyLine ==
    (Returned /\ WhitespaceOnly(line)) =>
        /\ ~parsed.isValid
        /\ parsed.errorMessage = "Empty line"
        /\ parsed.paymentDate = << >>
        /\ parsed.customer = << >>
        /\ parsed.paymentMethod = ""
        /\ parsed.depositToAccountName = << >>
        /\ parsed.invoiceNo = << >>
        /\ parsed.journalNo = << >>
        /\ parsed.amount = << >>
        /\ parsed.referenceMemo = << >>
        /\ parsed.countryCode = << >>
        /\ parsed.exchangeRate = << >>

(* a line made of a tab and a blank has been parsed *)
C7_Witness ==
    /\ Returned
    /\ Len(line) >= 2
    /\ WhitespaceOnly(line)
    /\ "\t" \in {line[k] : k \in 1..Len(line)}
    /\ parsed.errorMessage = "Empty line"

(* the numbers with two decimals of a line, left to right *)
CollectedAmounts == matchAllAmounts(trim(line), 1)

(* C8: with L the collected two-decimal numbers, the CRDB amount is       *)
(* L[len-2] when len >= 3, L[len-1] when len = 2, L[0] when len = 1 and   *)
(* empty when L is empty (indices counted from 0).                         *)
C8_CRDBAmountSelection ==
    (Returned /\ bankType = "CRDB") =>
        LET L == CollectedAmounts
            n == Len(L)
        IN  /\ n >= 3 => parsed.amount = L[n - 1]
            /\ n = 2 => parsed.amount = L[n]
            /\ n = 1 => parsed.amount = L[1]
            /\ n = 0 => parsed.amount = << >>

(* three different numbers were collected and the middle one was chosen *)
C8_Witness ==
    /\ Returned
    /\ bankType = "CRDB"
    /\ Len(CollectedAmounts) = 3
    /\ CollectedAmounts[2] # CollectedAmounts[3]
    /\ CollectedAmounts[2] # CollectedAmounts[1]
    /\ parsed.amount = CollectedAmounts[2]

(* where the patterns (a), (b) and (c) of the NMB amount first match in   *)
(* the trimmed line, 0 for no match, and the number each captures there   *)
FirstAmountMatch ==
    LET t == trim(line)
    IN  Leftmost({i \in 1..Len(t) : amountPatternAt(t, i) # 0})

FirstAltAmountMatch ==
    LET t == trim(line)
    IN  Leftmost({i \in 1..Len(t) : altAmountPatternAt(t, i) # 0})

FirstDepositMatch ==
    LET t == trim(line)
    IN  Leftmost({i \in 1..Len(t) : depositPatternAt(t, i) # 0})

NumberAt(i) == SubSeq(trim(line), i, NumEnd(trim(line), i) - 1)

(* C19: the NMB amount is the number captured by the first of the         *)
(* patterns (a), (b), (c) that matches the line, and is empty exactly     *)
(* when none of them matches.                                             *)
C19_FirstMatchingAmountPattern ==
    (Returned /\ bankType = "NMB") =>
        LET a == FirstAmountMatch
            b == FirstAltAmountMatch
            c == FirstDepositMatch
        IN  /\ a # 0 => parsed.amount = NumberAt(a + 1)
            /\ (a = 0 /\ b # 0) => parsed.amount = NumberAt(b + 1)
            /\ (a = 0 /\ b = 0 /\ c # 0) => parsed.amount = NumberAt(c)
            /\ parsed.amount = << >> <=> (a = 0 /\ b = 0 /\ c = 0)

(* C19's case: the three patterns match the line at three different      *)
(* numbers and the amount is the one of pattern (a)                       *)
C19_Witness ==
    /\ Returned
    /\ bankType = "NMB"
    /\ FirstAmountMatch # 0
    /\ FirstAltAmountMatch # 0
    /\ FirstDepositMatch # 0
    /\ NumberAt(FirstAmountMatch + 1) # NumberAt(FirstAltAmountMatch + 1)
    /\ NumberAt(FirstAmountMatch + 1) # NumberAt(FirstDepositMatch)
    /\ NumberAt(FirstAltAmountMatch + 1) # NumberAt(FirstDepositMatch)
    /\ parsed.amount = NumberAt(FirstAmountMatch + 1)

(* the positions <<i, j>> of two '@' of the trimmed line with digits, and *)
(* nothing else, between them                                             *)
DigitsBetweenAts ==
    LET t == trim(line)
    IN  {p \in (1..Len(t)) \X (1..Len(t)) :
            /\ p[2] > p[1] + 1
            /\ t[p[1]] = "@"
            /\ t[p[2]] = "@"
            /\ \A k \in (p[1] + 1)..(p[2] - 1) : t[k] \in Digit}

(* name stands in the trimmed line after "=>" and white space, and only   *)
(* white space separates it from a tab or from the end of the line        *)
FollowsArrow(name) ==
    LET t == trim(line)
    IN  \E i \in 1..Len(t), g \in 1..Len(t) :
            /\ LitAt(t, i, <<"=", ">">>)
            /\ g >= i + 2
            /\ LitAt(t, g, name)
            /\ \A k \in (i + 2)..(g - 1) : t[k] \in Space
            /\ \E e \in (g + Len(name))..(Len(t) + 1) :
                  /\ \A k \in (g + Len(name))..(e - 1) : t[k] \in Space
                  /\ e = Len(t) + 1 \/ t[e] = "\t"

HoldsCRDBDate ==
    \E i \in 1..Len(trim(line)) : crdbDatePatternAt(trim(line), i) # 0

CRDBMessage == "Could not extract required fields from CRDB line"

(* C21: a CRDB line that is not blank is returned valid exactly when it   *)
(* holds a number with two decimals or a date DD.MM.YYYY, that is when    *)
(* its amount or its date is not empty; otherwise it is returned invalid  *)
(* with the fixed message, whether or not a reference id was extracted.   *)
C21_CRDBValidIffAmountOrDate ==
    (Returned /\ bankType = "CRDB" /\ ~WhitespaceOnly(line)) =>
        /\ parsed.amount # << >> <=> CollectedAmounts # << >>
        /\ parsed.paymentDate # << >> <=> HoldsCRDBDate
        /\ parsed.isValid <=> (CollectedAmounts # << >> \/ HoldsCRDBDate)
        /\ parsed.isValid => parsed.errorMessage = "undefined"
        /\ ~parsed.isValid => parsed.errorMessage = CRDBMessage

(* C21's case: the reference id 19bd was extracted from a line that is   *)
(* more than the reference, no amount and no date, and the record is      *)
(* invalid with the fixed message                                         *)
C21_Witness ==
    /\ Returned
    /\ bankType = "CRDB"
    /\ parsed.invoiceNo = <<"1","9","b","d">>
    /\ parsed.referenceMemo = parsed.invoiceNo
    /\ Len(parsed.rawLine) > Len(parsed.invoiceNo) + 4
    /\ CollectedAmounts = << >>
    /\ ~HoldsCRDBDate
    /\ ~parsed.isValid
    /\ parsed.errorMessage = CRDBMessage

(* Properties of the line parsers on lines in the statement layout,      *)
(* checked under SpecLayout                                               *)

(* the cases the line was written from *)
NMBCasesOfLine == {c \in NMBCases : c.line = line}

CRDBCasesOfLine == {c \in CRDBCases : c.line = line}

(* C23: an NMB line in the statement layout is returned valid, with the   *)
(* date of its first column in single spaces, the digits after            *)
(* 'Description' as reference id, the digits between '@' as account/user  *)
(* id and the amount column, not the balance after TZS, as amount.        *)
C23_NMBLayoutLine ==
    (Returned /\ bankType = "NMB") =>
        /\ NMBCasesOfLine # {}
        /\ \A c \in NMBCasesOfLine :
              /\ parsed.isValid
              /\ parsed.errorMessage = "undefined"
              /\ parsed.paymentDate = c.date
              /\ parsed.invoiceNo = c.ref
              /\ parsed.referenceMemo = c.account
              /\ parsed.amount = c.amount
              /\ parsed.amount # c.balance

(* C23's case: the sample line of testRegex.js, with two spaces in the    *)
(* date and two tabs before TZS                                           *)
C23_Witness ==
    /\ Returned
    /\ bankType = "NMB"
    /\ line = NMBCase(<<"2","0">>, <<" "," ">>,
                      <<"2","2","4","1","0","0","6","3","7","8","6">>,
                      <<"9","6","3","3","3","0","0","0","0","1","4","1">>,
                      <<"!","!">>,
                      <<"V","I","T","U","S"," ","V","I","C","E","N","T"," ",
                        "I","T","A","B","A">>,
                      <<"1","2","5","0","0",".","0","0">>, <<"\t","\t">>,
                      <<"3","8","2","6","0","0","0",".","0","0">>).line
    /\ parsed.paymentDate = <<"2","0"," ","J","a","n"," ","2","0","2","6">>
    /\ parsed.invoiceNo = <<"9","6","3","3","3","0","0","0","0","1","4","1">>
    /\ parsed.referenceMemo = <<"2","2","4","1","0","0","6","3","7","8","6">>
    /\ parsed.amount = <<"1","2","5","0","0",".","0","0">>

(* the first five characters of a date DD.MM.YYYY, which the pattern of   *)
(* the amounts matches                                                    *)
DateFragment(date) == SubSeq(date, 1, 5)

(* C24: a CRDB line in the statement layout with debit, credit and        *)
(* balance is returned with the reference after 'REF:', the account       *)
(* number after the second colon (kept as referenceMemo), the name        *)
(* between the colons as customer, and the credit column as amount: not   *)
(* the balance, not the debit column and not a part of a date.            *)
C24_CRDBLayoutLine ==
    (Returned /\ bankType = "CRDB") =>
        /\ CRDBCasesOfLine # {}
        /\ \A c \in CRDBCasesOfLine :
              Len(c.amounts) = 3 =>
                  /\ parsed.isValid
                  /\ parsed.invoiceNo = c.ref
                  /\ parsed.referenceMemo = c.account
                  /\ parsed.customer = c.name
                  /\ parsed.amount = c.amounts[2]
                  /\ parsed.amount # c.amounts[3]
                  /\ parsed.amount # DateFragment(c.date)

(* C24's case: the sample line of testRegex.js *)
C24_Witness ==
    /\ Returned
    /\ bankType = "CRDB"
    /\ line = CRDBCase(<<"2","0",".","0","1",".","2","0","2","6">>,
                       <<"1","9","b","d","b","0","f","4","2","a","d","5","7",
                         "8","1","8">>,
                       <<"H","A","S","S","A","N"," ","S","A","I","D","I"," ",
                         "N","G","U","N","D","E">>,
                       <<"9","6","3","3","3","0","0","0","0","3","9","6">>,
                       <<<<"0",".","0","0">>,
                         <<"1","2",",","5","0","0",".","0","0">>,
                         <<"4","3","7",",","1","2","9",",","7","8","4",".",
                           "7","8">>>>).line
    /\ parsed.invoiceNo = <<"1","9","b","d","b","0","f","4","2","a","d","5",
                            "7","8","1","8">>
    /\ parsed.referenceMemo = <<"9","6","3","3","3","0","0","0","0","3","9","6">>
    /\ parsed.customer = <<"H","A","S","S","A","N"," ","S","A","I","D","I",
                           " ","N","G","U","N","D","E">>
    /\ parsed.amount = <<"1","2",",","5","0","0",".","0","0">>

(* C26: of a CRDB line that begins with a date and has two monetary       *)
(* columns a then b, the amount is b, the last of the two.                *)
C26_LastOfTwoColumns ==
    (Returned /\ bankType = "CRDB") =>
        \A c \in CRDBCasesOfLine :
            Len(c.amounts) = 2 => parsed.amount = c.amounts[2]

----------------------------------------------------------------------------
(* Properties of parseTransactions, checked under SpecParse *)

Range(f) == {f[k] : k \in DOMAIN f}

IsBlank(ln) == WhitespaceOnly(ln)

IsNonBlank(ln) == ~WhitespaceOnly(ln)

(* the non-blank lines of the input, in input order *)
NonBlankInput == SelectSeq(split(rawData, 1, << >>), IsNonBlank)

StrictlyIncreasing(f) ==
    \A j, k \in DOMAIN f : j < k => f[j] < f[k]

(* C9: totalLines is the number of non-blank input lines; every non-blank *)
(* line yields exactly one record, in successful when it is valid and in  *)
(* failed when it is not; successCount + failCount = totalLines, with     *)
(* successCount = |successful| and failCount = |failed|.                   *)
C9_PartitionAndCounts ==
    (Returned /\ result # NoResult) =>
        /\ result.totalLines = Len(NonBlankInput)
        /\ result.successCount = Len(result.successful)
        /\ result.failCount = Len(result.failed)
        /\ result.successCount + result.failCount = result.totalLines
        /\ \A j \in DOMAIN result.successful : result.successful[j].isValid
        /\ \A j \in DOMAIN result.failed : ~result.failed[j].isValid
        /\ Range(successfulSrc) \cup Range(failedSrc) = 1..Len(NonBlankInput)
        /\ Range(successfulSrc) \cap Range(failedSrc) = {}
        /\ Len(successfulSrc) = Len(result.successful)
        /\ Len(failedSrc) = Len(result.failed)
        /\ \A j \in DOMAIN result.successful :
              result.successful[j].rawLine = trim(NonBlankInput[successfulSrc[j]])
        /\ \A j \in DOMAIN result.failed :
              result.failed[j].rawLine = trim(NonBlankInput[failedSrc[j]])

(* an input with a blank line, a valid line and an invalid line *)
C9_Witness ==
    /\ Returned
    /\ result # NoResult
    /\ \E k \in DOMAIN split(rawData, 1, << >>) :
          /\ IsBlank(split(rawData, 1, << >>)[k])
          /\ split(rawData, 1, << >>)[k] # << >>
    /\ result.totalLines = 2
    /\ result.successCount = 1
    /\ result.failCount = 1

(* C10: lines are handled in input order and the order is kept: after k   *)
(* iterations exactly the first k non-blank lines have been handled, and  *)
(* the records of successful, and those of failed, stand in the order of  *)
(* the lines they were parsed from.                                        *)
C10_InputOrderPreserved ==
    (pc \in {"loop", "returned"} /\ idx > 0) =>
        /\ Range(successfulSrc) \cup Range(failedSrc) = 1..(idx - 1)
        /\ StrictlyIncreasing(successfulSrc)
        /\ StrictlyIncreasing(failedSrc)
        /\ Len(successfulSrc) = Len(successful)
        /\ Len(failedSrc) = Len(failed)
        /\ \A j \in DOMAIN successful :
              successful[j].rawLine = trim(NonBlankInput[successfulSrc[j]])
        /\ \A j \in DOMAIN failed :
              failed[j].rawLine = trim(NonBlankInput[failedSrc[j]])
        /\ result # NoResult =>
              result.successful = successful /\ result.failed = failed

(* two different valid lines around an invalid one *)
C10_Witness ==
    /\ Returned
    /\ result # NoResult
    /\ Len(result.successful) = 2
    /\ Len(result.failed) = 1
    /\ result.successful[1].rawLine # result.successful[2].rawLine
    /\ successfulSrc = <<1, 3>>
    /\ failedSrc = <<2>>

(* the record the line parser makes of the line a successful record      *)
(* comes from, before the look-up of the member code                      *)
ParsedOnly(k) ==
    IF bankType = "CRDB" THEN parseCRDBTransactionLine(lines[successfulSrc[k]])
    ELSE parseTransactionLine(lines[successfulSrc[k]])

(* the first token MC + 3 digits + 3 letters of a raw line, in upper case *)
MemberCode(t) == extractMemberIdFromDescription(t.rawLine)

(* the mappings of the list that carry the member id, by position *)
Carrying(code) ==
    {k \in 1..Len(customerMappings) : customerMappings[k].memberId = code}

(* C22 as stated: when the raw line of a valid transaction holds a member *)
(* code and a mapping of the list carries it, the customer name is the    *)
(* name of the first such mapping; otherwise it is the parsed name.       *)
C22_NameOfFirstMatch ==
    Returned =>
        \A k \in 1..Len(result.successful) :
            LET t == ParsedOnly(k)
                S == Carrying(MemberCode(t))
            IN  result.successful[k].customer =
                    IF MemberCode(t) # << >> /\ S # {}
                    THEN customerMappings[Leftmost(S)].customerName
                    ELSE t.customer

(* C22, amended: the customer name is the name of the first mapping that  *)
(* carries the member code of the raw line when that name is not empty;   *)
(* it is the parsed name when the line holds no member code, when no      *)
(* mapping carries the code, when the list is empty, and when the first   *)
(* mapping that carries the code has an empty name.  No other field of    *)
(* the record changes.                                                    *)
C22_NonEmptyNameOfFirstMatch ==
    Returned =>
        \A k \in 1..Len(result.successful) :
            LET t == ParsedOnly(k)
                S == Carrying(MemberCode(t))
                name == IF MemberCode(t) # << >> /\ S # {}
                        THEN customerMappings[Leftmost(S)].customerName
                        ELSE << >>
            IN  /\ result.successful[k].customer =
                       IF name # << >> THEN name ELSE t.customer
                /\ [result.successful[k] EXCEPT !.customer = t.customer] = t

(* C22's case: with a list whose first mapping for MC241EPW has no name,  *)
(* a line that holds mc241EPW in lower case and the name VITUS keeps      *)
(* VITUS as customer                                                      *)
C22_Witness ==
    /\ Returned
    /\ result # NoResult
    /\ Len(result.successful) >= 1
    /\ MemberCode(result.successful[1]) = <<"M","C","2","4","1","E","P","W">>
    /\ Carrying(MemberCode(result.successful[1])) = {2, 3}
    /\ customerMappings[2].customerName = << >>
    /\ result.successful[1].customer = <<"V","I","T","U","S">>

----------------------------------------------------------------------------
(* saveBatchToDatabase and checkExistingTransactions (databaseService).   *)
(* A call runs up to its next await in one step; the store answers one    *)
(* request at a time, and the answer together with the code that follows  *)
(* it up to the next await is one action.  null is modelled by the id 0   *)
(* and by the message "null"; '' is the message "".                       *)

(* parseTransactions as a function of its arguments (lines 240-279) *)
RECURSIVE parseLoop(_, _, _, _, _, _)
parseLoop(ls, k, bank, mappings, succ, fail) ==
    IF k > Len(ls) THEN <<succ, fail>>
    ELSE LET e == parseAndEnrich(ls[k], bank, mappings)
         IN  IF e.isValid
             THEN parseLoop(ls, k + 1, bank, mappings, push(succ, e), fail)
             ELSE IF trim(ls[k]) # << >>
             THEN parseLoop(ls, k + 1, bank, mappings, succ, push(fail, e))
             ELSE parseLoop(ls, k + 1, bank, mappings, succ, fail)

parseTransactions(raw, bank, mappings) ==
    LET ls == splitLines(raw)
        r  == parseLoop(ls, 1, bank, mappings, << >>, << >>)
    IN  [successful |-> r[1], failed |-> r[2],
         totalLines |-> Len(ls),
         successCount |-> Len(r[1]),
         failCount |-> Len(r[2]),
         bankType |-> bank]

(* Batches submitted: statements of at most MaxTx lines.  Per bank there  *)
(* are two lines with different reference ids, a valid line without a     *)
(* reference id, and a line that fails to parse.  One line has an amount  *)
(* with a thousands separator, one a plain amount, one no amount.         *)
MaxTx == 3

SaveLines(bank) ==
    IF bank = "NMB"
    THEN {<<"D","e","s","c","r","i","p","t","i","o","n"," ","1","\t",
            "1",",","0","0","0",".","5","0","\t","T","Z","S">>,
          <<"D","e","s","c","r","i","p","t","i","o","n"," ","2","\t",
            "2","5","\t","T","Z","S">>,
          <<"7"," ","J","a","n"," ","2","0","2","6">>,
          <<"x","y","z">>}
    ELSE {<<"R","E","F",":","1"," ","1",",","0","0","0",".","5","0">>,
          <<"R","E","F",":","2"," ","0",".","2","5">>,
          <<"0",".","0","0">>,
          <<"R","E","F",":","1">>}

RECURSIVE Statements(_, _)
Statements(bank, n) ==
    IF n <= 1 THEN SaveLines(bank)
    ELSE LET S == Statements(bank, n - 1)
         IN  S \cup {s \o <<"\n">> \o l : s \in S, l \in SaveLines(bank)}

ParseResults ==
    {parseTransactions(raw, bank, << >>) :
        raw \in Statements("NMB", MaxTx), bank \in {"NMB"}}
    \cup
    {parseTransactions(raw, bank, << >>) :
        raw \in Statements("CRDB", MaxTx), bank \in {"CRDB"}}

(* Rows the table may hold before the call: written by earlier batches *)
MaxStored == 2

PriorRow(ref_id, is_valid) ==
    [batch_id |-> 1, ref_id |-> ref_id, user_id |-> << >>,
     product_type |-> "Transfer", product_name |-> << >>, amount |-> << >>,
     transaction_date |-> << >>, receipt_no |-> << >>, raw_line |-> << >>,
     is_valid |-> is_valid, error_message |-> "null"]

PriorRows ==
    {PriorRow(<<"1">>, TRUE), PriorRow(<<"2">>, FALSE), PriorRow(<< >>, TRUE)}

RECURSIVE PriorStores(_)
PriorStores(n) ==
    IF n = 0 THEN {<< >>}
    ELSE LET S == PriorStores(n - 1)
         IN  S \cup {Append(s, r) : s \in S, r \in PriorRows}

PriorBatches(rows) ==
    IF rows = << >> THEN << >>
    ELSE <<[id |-> 1, total_lines |-> Len(rows), success_count |-> Len(rows),
            fail_count |-> 0, total_amount |-> 0]>>

(* Array.prototype.slice(from, to) on a list indexed from 0 *)
slice(list, from, to) ==
    SubSeq(list, from + 1, IF to < Len(list) THEN to ELSE Len(list))

(* lines 125 and 143 (100 in the source): keys per existence query *)
chunkSize == 2

(* line 281 (100 in the source): rows per insert *)
batchSize == 2

(* What the store client hands back to an await.  "ok" and "error" are    *)
(* resolved promises ({data, error: null} and {data: null, error}); an    *)
(* error object is not an Error instance and its message may be empty.    *)
(* "reject" is a rejected promise carrying an Error; the request may or   *)
(* may not have been applied by the store before the failure.             *)
ErrorMessages == {"", "permission denied"}

Outcomes ==
    {[kind |-> "ok", message |-> "null", applied |-> TRUE]}
    \cup {[kind |-> "error", message |-> m, applied |-> FALSE] :
             m \in ErrorMessages}
    \cup {[kind |-> "reject", message |-> "fetch failed", applied |-> a] :
             a \in BOOLEAN}

(* lines 128-131 and 146-149: select('ref_id').in('ref_id', chunk) *)
selectRefIds(rows, chunk) ==
    LET Hit(r) == \E k \in 1..Len(chunk) : chunk[k] = r.ref_id
        hits == SelectSeq(rows, Hit)
    IN  [k \in 1..Len(hits) |-> hits[k].ref_id]

Request(op, payload) == [op |-> op, payload |-> payload]


(* a result that always carries the id of the batch the call created *)
ResolveWithBatchId(cl, batchId, error, skippedCount) ==
    [cl EXCEPT !.pc = "done", !.awaiting = NoRequest,
               !.ret = [batchId |-> cl.batchId, error |-> error,
                        skippedCount |-> skippedCount]]

(* line 181, 193, 218, 294, 297: the call resolves *)
Resolve(cl, batchId, error, skippedCount) ==
    [cl EXCEPT !.pc = "done", !.awaiting = NoRequest,
               !.ret = [batchId |-> batchId, error |-> error,
                        skippedCount |-> skippedCount]]

(* a row that is written without the id of its batch *)
rowOfNoBatch(t, batchId, is_valid) ==
    [batch_id |-> 0, ref_id |-> t.invoiceNo,
     user_id |-> t.referenceMemo, product_type |-> t.paymentMethod,
     product_name |-> t.depositToAccountName, amount |-> t.amount,
     transaction_date |-> t.paymentDate, receipt_no |-> t.journalNo,
     raw_line |-> t.rawLine, is_valid |-> is_valid,
     error_message |-> IF is_valid \/ t.errorMessage \in {"", "undefined"}
                       THEN "null" ELSE t.errorMessage]

(* lines 226-251 and 252-277: the row written for a transaction *)
rowOf(t, batchId, is_valid) ==
    [batch_id |-> batchId, ref_id |-> t.invoiceNo,
     user_id |-> t.referenceMemo, product_type |-> t.paymentMethod,
     product_name |-> t.depositToAccountName, amount |-> t.amount,
     transaction_date |-> t.paymentDate, receipt_no |-> t.journalNo,
     raw_line |-> t.rawLine, is_valid |-> is_valid,
     error_message |-> IF is_valid \/ t.errorMessage \in {"", "undefined"}
                       THEN "null" ELSE t.errorMessage]

(* a filter that keeps every transaction, known key or not *)
keepsEverything(t, existingIds) == TRUE

(* a filter that also drops the transactions without a key *)
notExistingNorEmpty(t, existingIds) ==
    t.invoiceNo # << >> /\ t.invoiceNo \notin existingIds

(* line 185: the filter's test, kept when the key is not known *)
notExisting(t, existingIds) == t.invoiceNo \notin existingIds

(* String.prototype.replace(/,/g, '') *)
removeCommas(s) ==
    LET NotComma(ch) == ch # ","
    IN  SelectSeq(s, NotComma)

Numeral(ch) ==
    CHOOSE v \in 0..9 : <<"0","1","2","3","4","5","6","7","8","9">>[v + 1] = ch

RECURSIVE DecimalFrom(_, _, _)
DecimalFrom(s, i, acc) ==
    IF i > Len(s) THEN acc
    ELSE DecimalFrom(s, i + 1, 10 * acc + Numeral(s[i]))

(* parseFloat: leading white space, a sign, digits, a point and digits,   *)
(* read up to the first character that does not fit; NaN when no digit    *)
(* was read.  The value is kept in hundredths: the amount patterns        *)
(* capture no more than two decimals.  Exponents and "Infinity" are not   *)
(* read: no amount pattern captures a letter.                             *)
parseFloat(s) ==
    LET a == RunEnd(s, 1, Space)
        b == IF At(s, a) \in {"+", "-"} THEN a + 1 ELSE a
        c == RunEnd(s, b, Digit)
        d == IF At(s, c) = "." THEN RunEnd(s, c + 1, Digit) ELSE c
        whole == SubSeq(s, b, c - 1)
        cents == IF d > c THEN SubSeq(s, c + 1, d - 1) ELSE << >>
        magnitude ==
            100 * DecimalFrom(whole, 1, 0)
            + (IF Len(cents) >= 1 THEN 10 * Numeral(cents[1]) ELSE 0)
            + (IF Len(cents) >= 2 THEN Numeral(cents[2]) ELSE 0)
    IN  [NaN |-> whole = << >> /\ cents = << >>,
         value |-> IF At(s, a) = "-" THEN 0 - magnitude ELSE magnitude]

(* lines 198 and 199: parseFloat(t.amount.replace(/,/g, '')) || 0 *)
amountOrZero(t) ==
    LET amount == parseFloat(removeCommas(t.amount))
    IN  IF amount.NaN THEN 0 ELSE amount.value

(* lines 197-200: the reduce, from 0 *)
RECURSIVE reduceAmounts(_, _, _)
reduceAmounts(list, k, sum) ==
    IF k > Len(list) THEN sum
    ELSE reduceAmounts(list, k + 1, sum + amountOrZero(list[k]))

(* a total taken over every successful transaction *)
summedAll(toSave, all) == all

(* line 197: the list that is reduced *)
summed(toSave, all) == toSave

(* a call that creates the batch record even when nothing is left to save *)
AfterCheckAlwaysInserts(cl, existingIds) ==
    LET Fresh(t) == notExisting(t, existingIds)
        transactionsToSave == SelectSeq(cl.result.successful, Fresh)
        skippedCount == Len(cl.result.successful) - Len(transactionsToSave)
    IN  [cl EXCEPT
            !.existingIds = existingIds,
            !.transactionsToSave = transactionsToSave,
            !.skippedCount = skippedCount,
            !.pc = "awaitBatch",
            !.awaiting = Request("insertBatch",
                <<[total_lines |-> cl.result.totalLines,
                   success_count |-> Len(transactionsToSave),
                   fail_count |-> cl.result.failCount,
                   total_amount |->
                       reduceAmounts(transactionsToSave, 1, 0)]>>)]

(* lines 184-214: after a check without error, up to the batch insert *)
AfterCheck(cl, existingIds) ==
    LET Fresh(t) == notExisting(t, existingIds)
        transactionsToSave == SelectSeq(cl.result.successful, Fresh)
        skippedCount == Len(cl.result.successful) - Len(transactionsToSave)
        kept == [cl EXCEPT !.existingIds = existingIds,
                           !.transactionsToSave = transactionsToSave,
                           !.skippedCount = skippedCount]
    IN  IF Len(transactionsToSave) = 0
        THEN Resolve(kept, 0, "null", skippedCount)
        ELSE [kept EXCEPT
                !.pc = "awaitBatch",
                !.awaiting = Request("insertBatch",
                    <<[total_lines |-> cl.result.totalLines,
                       success_count |-> Len(transactionsToSave),
                       fail_count |-> cl.result.failCount,
                       total_amount |->
                           reduceAmounts(summed(transactionsToSave,
                                                cl.result.successful),
                                         1, 0)]>>)]

(* a failed check taken as an empty set of existing keys *)
CheckFailedAsNoDuplicates(cl, isError, message) == AfterCheck(cl, {})

(* lines 162-164 and 180-182: the check failed with the value thrown *)
CheckFailed(cl, isError, message) ==
    LET checkError == IF isError THEN message ELSE "Unknown error"
    IN  IF checkError # ""
        THEN Resolve(cl, 0, checkError, 0)
        ELSE AfterCheck(cl, {})


(* a query that carries one key more than the chunk *)
CheckChunkWide(cl, i) ==
    [cl EXCEPT !.pc = "awaitCheck", !.i = i,
               !.awaiting = Request("select",
                                    slice(cl.invoiceNos, i, i + chunkSize + 1))]

(* a check that gives up the remaining chunks after the first answer *)
CheckChunkOnlyFirst(cl, i) ==
    IF i = 0
    THEN [cl EXCEPT !.pc = "awaitCheck", !.i = i,
                    !.awaiting = Request("select",
                                         slice(cl.invoiceNos, i, i + chunkSize))]
    ELSE AfterCheck(cl, cl.existingIds)

(* lines 126-127 and 144-145: the query for the chunk starting at i *)
CheckChunk(cl, i) ==
    [cl EXCEPT !.pc = "awaitCheck", !.i = i,
               !.awaiting = Request("select",
                                    slice(cl.invoiceNos, i, i + chunkSize))]

(* lines 282-286: the insert of the rows starting at j *)
RowChunk(cl, j) ==
    [cl EXCEPT !.pc = "awaitRows", !.j = j,
               !.awaiting = Request("insertRows",
                                    slice(cl.allTransactions, j, j + batchSize))]

Answered(cl, outcome, data) ==
    Append(cl.history, [request |-> cl.awaiting, outcome |-> outcome,
                        data |-> data])

(* lines 169-178 with 118-127: the call starts and runs to its first     *)
(* await, or through the check when there is no key to look up            *)
saveBatchToDatabase(c, r) ==
    /\ calls[c].pc = "idle"
    /\ LET HasId(id) == id # << >>
           ids == [k \in 1..Len(r.successful) |-> r.successful[k].invoiceNo]
           cl == [IdleCall EXCEPT !.result = r,
                                  !.invoiceNos = SelectSeq(ids, HasId)]
       IN  calls' = [calls EXCEPT ![c] =
                        IF Len(cl.invoiceNos) > 0 THEN CheckChunk(cl, 0)
                        ELSE AfterCheck(cl, {})]
    /\ UNCHANGED <<pc, bankType, lineVars, parseVars, store, batches, appVars, cacheVars>>

(* lines 128-161: the answer to an existence query *)
CheckResponse(c, outcome) ==
    /\ calls[c].pc = "awaitCheck"
    /\ outcome.kind = "reject" => ~outcome.applied
    /\ LET cl == calls[c]
           data == IF outcome.kind = "ok"
                   THEN selectRefIds(store, cl.awaiting.payload) ELSE << >>
           existingIds == cl.existingIds \cup {data[k] : k \in 1..Len(data)}
           heard == [cl EXCEPT !.history = Answered(cl, outcome, data),
                               !.existingIds = existingIds]
       IN  calls' = [calls EXCEPT ![c] =
                        IF outcome.kind # "ok"
                        THEN CheckFailed(heard, outcome.kind = "reject",
                                         outcome.message)
                        ELSE IF cl.i + chunkSize < Len(cl.invoiceNos)
                        THEN CheckChunk(heard, cl.i + chunkSize)
                        ELSE AfterCheck(heard, existingIds)]
    /\ UNCHANGED <<pc, bankType, lineVars, parseVars, store, batches, appVars, cacheVars>>

(* lines 203-283: the answer to the insert of the batch record.  Of the  *)
(* record, total_lines, success_count, fail_count and total_amount are   *)
(* kept; session_id and batch_name do not bear on what follows.          *)
BatchResponse(c, outcome) ==
    /\ calls[c].pc = "awaitBatch"
    /\ LET cl == calls[c]
           sent == cl.awaiting.payload[1]
           batchId == Len(batches) + 1
           heard == [cl EXCEPT !.history = Answered(cl, outcome, << >>)]
           allTransactions ==
               [k \in 1..Len(cl.transactionsToSave) |->
                   rowOf(cl.transactionsToSave[k], batchId, TRUE)]
               \o [k \in 1..Len(cl.result.failed) |->
                   rowOf(cl.result.failed[k], batchId, FALSE)]
           ready == [heard EXCEPT !.batchId = batchId,
                                  !.allTransactions = allTransactions]
       IN  /\ batches' = IF outcome.applied
                         THEN Append(batches,
                                     [id |-> batchId,
                                      total_lines |-> sent.total_lines,
                                      success_count |-> sent.success_count,
                                      fail_count |-> sent.fail_count,
                                      total_amount |-> sent.total_amount])
                         ELSE batches
           /\ calls' = [calls EXCEPT ![c] =
                           IF outcome.kind # "ok"
                           THEN Resolve(heard, 0, outcome.message, 0)
                           ELSE IF 0 < Len(allTransactions)
                           THEN RowChunk(ready, 0)
                           ELSE Resolve(ready, batchId, "null",
                                        cl.skippedCount)]
    /\ UNCHANGED <<pc, bankType, lineVars, parseVars, store, appVars, cacheVars>>

(* a row loop that a reported error ends as a rejection does *)
leavesRowLoopOnError(outcome) == outcome.kind # "ok"

(* lines 288-297: a reported txError is logged; only a rejection reaches *)
(* the catch                                                              *)
leavesRowLoop(outcome) == outcome.kind = "reject"

(* lines 284-297: the answer to an insert of rows *)
RowsResponse(c, outcome) ==
    /\ calls[c].pc = "awaitRows"
    /\ LET cl == calls[c]
           heard == [cl EXCEPT !.history = Answered(cl, outcome, << >>)]
       IN  /\ store' = IF outcome.applied THEN store \o cl.awaiting.payload
                       ELSE store
           /\ calls' = [calls EXCEPT ![c] =
                           IF leavesRowLoop(outcome)
                           THEN Resolve(heard, 0, outcome.message, 0)
                           ELSE IF cl.j + batchSize < Len(cl.allTransactions)
                           THEN RowChunk(heard, cl.j + batchSize)
                           ELSE Resolve(heard, cl.batchId, "null",
                                        cl.skippedCount)]
    /\ UNCHANGED <<pc, bankType, lineVars, parseVars, batches, appVars, cacheVars>>

ParserIdle ==
    /\ pc = "idle"
    /\ bankType = "NMB"
    /\ LineIdle
    /\ ParseIdle

(* One call against a table that holds rows of earlier batches *)
InitSave ==
    /\ store \in PriorStores(MaxStored)
    /\ batches = PriorBatches(store)
    /\ calls = [c \in Calls |-> IdleCall]
    /\ ParserIdle
    /\ AppIdle
    /\ CacheIdle

SaveBatch == \E r \in ParseResults : saveBatchToDatabase(1, r)

StoreAnswers ==
    \E c \in Calls, outcome \in Outcomes :
        \/ CheckResponse(c, outcome)
        \/ BatchResponse(c, outcome)
        \/ RowsResponse(c, outcome)

NextSave == SaveBatch \/ StoreAnswers

SpecSave == InitSave /\ [][NextSave]_vars

(* The same ParseResult submitted again once the first call has resolved *)
SaveAgain ==
    /\ calls[1].pc = "done"
    /\ saveBatchToDatabase(2, calls[1].result)

InitResubmit ==
    /\ store = << >>
    /\ batches = << >>
    /\ calls = [c \in Calls |-> IdleCall]
    /\ ParserIdle
    /\ AppIdle
    /\ CacheIdle

NextResubmit == SaveBatch \/ SaveAgain \/ StoreAnswers

SpecResubmit == InitResubmit /\ [][NextResubmit]_vars

(* The same ParseResult saved from two tabs against an empty table: the   *)
(* second call starts at any moment once the first has started, and the   *)
(* store answers the requests of the two calls in any order.              *)
SaveFromOtherTab ==
    /\ calls[1].pc # "idle"
    /\ saveBatchToDatabase(2, calls[1].result)

NextRace == SaveBatch \/ SaveFromOtherTab \/ StoreAnswers

SpecRace == InitResubmit /\ [][NextRace]_vars

----------------------------------------------------------------------------
(* Properties of saveBatchToDatabase, checked under SpecSave *)

IsSelect(h) == h.request.op = "select"

IsRowInsert(h) == h.request.op = "insertRows"

RECURSIVE Flatten(_)
Flatten(ss) == IF ss = << >> THEN << >> ELSE Head(ss) \o Flatten(Tail(ss))

(* every existence query of the call so far was answered without error *)
AllChecksOk(cl) ==
    \A k \in 1..Len(cl.history) :
        IsSelect(cl.history[k]) => cl.history[k].outcome.kind = "ok"

CheckCompleted(cl) == cl.pc \notin {"idle", "awaitCheck"} /\ AllChecksOk(cl)

(* the union of the keys the store returned to the call's queries *)
ReturnedKeys(cl) ==
    UNION {Range(cl.history[k].data) :
              k \in {n \in 1..Len(cl.history) : IsSelect(cl.history[n])}}

NotReturned(cl) ==
    LET Unknown(t) == t.invoiceNo \notin ReturnedKeys(cl)
    IN  SelectSeq(cl.result.successful, Unknown)

(* the chunks of rows the call has asked the store to insert, in order *)
RowRequests(cl) ==
    LET answered == SelectSeq(cl.history, IsRowInsert)
    IN  [k \in 1..Len(answered) |-> answered[k].request.payload]
        \o (IF cl.awaiting.op = "insertRows" THEN <<cl.awaiting.payload>>
            ELSE << >>)

ValidRowsSent(cl) ==
    LET Valid(r) == r.is_valid
    IN  SelectSeq(Flatten(RowRequests(cl)), Valid)

Succeeded(cl) == cl.pc = "done" /\ cl.ret.error = "null"

(* C1: when every existence query of a call succeeded, the transactions   *)
(* it sets out to write are exactly the successful transactions whose     *)
(* key is in no answer of the store, in their order; no valid row it      *)
(* sends carries a returned key; the valid rows it sends are the rows of  *)
(* those transactions, all of them once the call has returned a batch     *)
(* id; and skippedCount is the number of successful transactions removed, *)
(* which is what a call that returns without error reports.               *)
C1_WriteSetIsUnknownKeys ==
    \A c \in Calls :
        LET cl == calls[c]
            expected == NotReturned(cl)
            rows == [k \in 1..Len(expected) |->
                        rowOf(expected[k], cl.batchId, TRUE)]
            sent == ValidRowsSent(cl)
        IN  CheckCompleted(cl) =>
              /\ cl.transactionsToSave = expected
              /\ cl.skippedCount = Len(cl.result.successful) - Len(expected)
              /\ \A k \in 1..Len(sent) : sent[k].ref_id \notin ReturnedKeys(cl)
              /\ Len(sent) <= Len(rows)
              /\ sent = SubSeq(rows, 1, Len(sent))
              /\ Succeeded(cl) =>
                    /\ cl.ret.skippedCount =
                          Len(cl.result.successful) - Len(expected)
                    /\ cl.ret.batchId # 0 => sent = rows
                    /\ cl.ret.batchId = 0 => expected = << >>

(* C1's case: two queries answered, a key returned, a transaction kept    *)
(* and written                                                            *)
C1_Witness ==
    /\ Succeeded(calls[1])
    /\ calls[1].ret.batchId # 0
    /\ Len(SelectSeq(calls[1].history, IsSelect)) >= 2
    /\ ReturnedKeys(calls[1]) # {}
    /\ calls[1].ret.skippedCount >= 1
    /\ \E k \in 1..Len(store) : store[k].batch_id = calls[1].ret.batchId
                                /\ store[k].is_valid

(* rows and batch records are those the table held before the call *)
NothingInserted ==
    /\ \A k \in 1..Len(store) : store[k].raw_line = << >>
    /\ batches = PriorBatches(store)

CheckFailure(cl, k) ==
    /\ k \in 1..Len(cl.history)
    /\ IsSelect(cl.history[k])
    /\ cl.history[k].outcome.kind # "ok"

(* C2: once an existence query of a call has failed, that query is the    *)
(* call's last request (no later chunk is queried, nothing is inserted),  *)
(* the call has returned batchId null with a non-null error, and the      *)
(* tables hold what they held before the call.                            *)
C2_FailedCheckAborts ==
    \A c \in Calls :
        LET cl == calls[c]
        IN  \A k \in 1..Len(cl.history) :
                CheckFailure(cl, k) =>
                    /\ k = Len(cl.history)
                    /\ \A n \in 1..k : IsSelect(cl.history[n])
                    /\ cl.awaiting = NoRequest
                    /\ cl.pc = "done"
                    /\ cl.ret.batchId = 0
                    /\ cl.ret.error \notin {"null", ""}
                    /\ cl.ret.skippedCount = 0
                    /\ NothingInserted

(* C2's case: the first of two chunks failed, and the table held rows *)
C2_Witness ==
    /\ CheckFailure(calls[1], 1)
    /\ Len(calls[1].invoiceNos) > chunkSize
    /\ calls[1].pc = "done"
    /\ store # << >>

RowError(cl, k) ==
    /\ k \in 1..Len(cl.history)
    /\ IsRowInsert(cl.history[k])
    /\ cl.history[k].outcome.kind = "error"

NoRejection(cl) ==
    \A k \in 1..Len(cl.history) : cl.history[k].outcome.kind # "reject"

(* the number of chunks of batchSize rows in allTransactions *)
RowChunkCount(cl) == (Len(cl.allTransactions) + batchSize - 1) \div batchSize

(* C3: when an insert of rows has reported an error (and no store call    *)
(* was rejected), the call goes on: the inserts it has asked for are the  *)
(* consecutive chunks of its rows in order, it is either awaiting the     *)
(* next one or done, and once done every chunk was attempted and the      *)
(* result carries the id of the batch created, error null and the         *)
(* skipped count.                                                         *)
C3_RowErrorIsSkipped ==
    \A c \in Calls :
        LET cl == calls[c]
            reqs == RowRequests(cl)
        IN  (NoRejection(cl) /\ \E k \in 1..Len(cl.history) : RowError(cl, k))
            =>
              /\ \A n \in 1..Len(reqs) :
                    reqs[n] = slice(cl.allTransactions, (n - 1) * batchSize,
                                    n * batchSize)
              /\ cl.pc \in {"awaitRows", "done"}
              /\ cl.pc = "awaitRows" => Len(reqs) <= RowChunkCount(cl)
              /\ cl.pc = "done" =>
                    /\ Len(reqs) = RowChunkCount(cl)
                    /\ cl.batchId # 0
                    /\ \E b \in 1..Len(batches) : batches[b].id = cl.batchId
                    /\ cl.ret = [batchId |-> cl.batchId, error |-> "null",
                                 skippedCount |-> cl.skippedCount]

(* C3's case: the first of two chunks of rows was refused, the second     *)
(* was inserted, and the call returned the batch id                       *)
C3_Witness ==
    /\ calls[1].pc = "done"
    /\ NoRejection(calls[1])
    /\ Len(RowRequests(calls[1])) = 2
    /\ \E k \in 1..Len(calls[1].history) :
          /\ RowError(calls[1], k)
          /\ k < Len(calls[1].history)
          /\ calls[1].history[k + 1].outcome.kind = "ok"
    /\ calls[1].ret.batchId # 0

(* every store call of the call was answered without error *)
AllOk(cl) ==
    \A k \in 1..Len(cl.history) : cl.history[k].outcome.kind = "ok"

IsInsert(h) == h.request.op \in {"insertBatch", "insertRows"}

(* C4 as stated, checked under SpecResubmit: when a batch is submitted    *)
(* again after its first submission was persisted (every store call of    *)
(* both calls answered without error), the second call returns            *)
(* skippedCount equal to the batch's successCount and asks for no insert  *)
(* of a batch record or of rows.                                          *)
C4_ResubmitSkipsAll ==
    (/\ calls[1].pc = "done" /\ AllOk(calls[1])
     /\ calls[2].pc = "done" /\ AllOk(calls[2]))
    =>
        /\ calls[2].ret.skippedCount = calls[2].result.successCount
        /\ \A k \in 1..Len(calls[2].history) : ~IsInsert(calls[2].history[k])

(* the existence queries the call has issued, in order *)
CheckRequests(cl) ==
    LET answered == SelectSeq(cl.history, IsSelect)
    IN  [k \in 1..Len(answered) |-> answered[k].request.payload]
        \o (IF cl.awaiting.op = "select" THEN <<cl.awaiting.payload>>
            ELSE << >>)

(* the non-empty keys of the successful transactions, in order *)
CandidateKeys(cl) ==
    LET HasKey(t) == t.invoiceNo # << >>
        keyed == SelectSeq(cl.result.successful, HasKey)
    IN  [k \in 1..Len(keyed) |-> keyed[k].invoiceNo]

CheckChunkCount(cl) == (Len(CandidateKeys(cl)) + chunkSize - 1) \div chunkSize

(* C11: the existence queries of a call carry consecutive chunks of the   *)
(* non-empty keys of its successful transactions: each query holds       *)
(* between 1 and chunkSize keys, the queries issued so far put together   *)
(* are a prefix of the list of keys (each occurrence of a key is sent     *)
(* once, in order), and when every query was answered without error the   *)
(* queries are ceil(n / chunkSize) in number and carry all n keys, none   *)
(* when n = 0.                                                            *)
C11_KeysInConsecutiveChunks ==
    \A c \in Calls :
        LET cl == calls[c]
            reqs == CheckRequests(cl)
            keys == CandidateKeys(cl)
            sent == Flatten(reqs)
        IN  cl.pc # "idle" =>
              /\ \A k \in 1..Len(reqs) :
                    /\ Len(reqs[k]) >= 1
                    /\ Len(reqs[k]) <= chunkSize
                    /\ k < Len(reqs) => Len(reqs[k]) = chunkSize
              /\ Len(sent) <= Len(keys)
              /\ sent = SubSeq(keys, 1, Len(sent))
              /\ Len(reqs) <= CheckChunkCount(cl)
              /\ CheckCompleted(cl) =>
                    /\ sent = keys
                    /\ Len(reqs) = CheckChunkCount(cl)

(* C11's case: three keys were looked up by two queries, the second one   *)
(* carrying the key left over                                             *)
C11_Witness ==
    /\ CheckCompleted(calls[1])
    /\ Len(CandidateKeys(calls[1])) > chunkSize
    /\ Len(CheckRequests(calls[1])) = 2
    /\ Len(CheckRequests(calls[1])[2]) < chunkSize

(* the requests of a call: those answered, then the one it awaits *)
Issued(cl) ==
    [k \in 1..Len(cl.history) |-> cl.history[k].request]
    \o (IF cl.awaiting.op # "none" THEN <<cl.awaiting>> ELSE << >>)

(* C12: a call issues a request only when it starts or in the step that   *)
(* receives the answer to its previous request, so that at most one is    *)
(* outstanding; its existence queries all precede its inserts, and an     *)
(* insert is issued only when every chunk of keys has been queried and    *)
(* answered.                                                              *)
C12_RequestsAreSequential ==
    [][\A c \in Calls :
          LET old == calls[c]
              new == calls'[c]
              reqs == Issued(new)
          IN  /\ Len(Issued(new)) > Len(Issued(old)) =>
                    /\ Len(Issued(new)) = Len(Issued(old)) + 1
                    /\ old.awaiting.op # "none" =>
                          /\ Len(new.history) = Len(old.history) + 1
                          /\ new.history[Len(new.history)].request
                                = old.awaiting
                    /\ Len(new.history) = Len(reqs) - 1
              /\ \A k \in 1..Len(reqs) :
                    reqs[k].op # "select" =>
                        /\ \A n \in (k + 1)..Len(reqs) :
                              reqs[n].op # "select"
                        /\ Len(CheckRequests(new)) = CheckChunkCount(new)
                        /\ AllChecksOk(new)
       ]_vars

(* C12's case: two existence queries, the batch insert and a first insert *)
(* of rows were answered one after the other and a second insert of rows  *)
(* is outstanding                                                         *)
C12_Witness ==
    /\ calls[1].pc = "awaitRows"
    /\ Len(CheckRequests(calls[1])) = 2
    /\ Len(RowRequests(calls[1])) = 2
    /\ Len(calls[1].history) = 4

(* C13: a call that has ended has returned a result of one of three       *)
(* shapes, whatever the store answered: an error with batchId null; a     *)
(* batchId with error null; or batchId null, error null and skippedCount  *)
(* equal to the number of successful transactions.  A call that has not   *)
(* ended awaits an answer of the store.                                   *)
C13_AlwaysAResult ==
    \A c \in Calls :
        LET cl == calls[c]
        IN  /\ cl.pc = "done" =>
                \/ cl.ret.error # "null" /\ cl.ret.batchId = 0
                \/ cl.ret.error = "null" /\ cl.ret.batchId # 0
                \/ /\ cl.ret.error = "null" /\ cl.ret.batchId = 0
                   /\ cl.ret.skippedCount = Len(cl.result.successful)
            /\ cl.pc \in {"awaitCheck", "awaitBatch", "awaitRows"} =>
                cl.awaiting.op # "none"
            /\ cl.pc \in {"idle", "awaitCheck", "awaitBatch", "awaitRows",
                          "done"}

(* C13's case: the insert of rows was rejected after the batch record     *)
(* was written, and the call returned the error with batchId null         *)
C13_Witness ==
    /\ calls[1].pc = "done"
    /\ calls[1].batchId # 0
    /\ calls[1].ret.batchId = 0
    /\ calls[1].ret.error = "fetch failed"
    /\ \E k \in 1..Len(calls[1].history) :
          /\ IsRowInsert(calls[1].history[k])
          /\ calls[1].history[k].outcome.kind = "reject"

(* StatsPanel.tsx lines 25-28: the total shown for a parse result *)
StatsPanelTotal(r) == reduceAmounts(r.successful, 1, 0)

(* the sum of the amounts of a list of transactions, in hundredths *)
RECURSIVE SumOf(_)
SumOf(list) ==
    IF list = << >> THEN 0
    ELSE amountOrZero(Head(list)) + SumOf(Tail(list))

(* the batch records a call has asked the store to insert *)
BatchRequests(cl) ==
    LET IsBatchInsert(r) == r.op = "insertBatch"
        reqs == SelectSeq(Issued(cl), IsBatchInsert)
    IN  [k \in 1..Len(reqs) |-> reqs[k].payload[1]]

(* C18 as stated: the total_amount of the batch record a call inserts is  *)
(* the sum of the amounts of all successful transactions of the result.   *)
C18_TotalOfAllSuccessful ==
    \A c \in Calls :
        \A k \in 1..Len(BatchRequests(calls[c])) :
            BatchRequests(calls[c])[k].total_amount
                = SumOf(calls[c].result.successful)

(* C18, amended: the total shown by StatsPanel is the sum over all        *)
(* successful transactions of the result; the total_amount of the batch   *)
(* record a call inserts is the sum over the successful transactions it   *)
(* sets out to save, which are all of them only when none was skipped as  *)
(* a duplicate; the record stored carries the total sent; a transaction   *)
(* without amount contributes zero.                                       *)
C18_TotalOfSavedTransactions ==
    \A c \in Calls :
        LET cl == calls[c]
            sent == BatchRequests(cl)
        IN  cl.pc # "idle" =>
            /\ StatsPanelTotal(cl.result) = SumOf(cl.result.successful)
            /\ \A k \in 1..Len(cl.result.successful) :
                  cl.result.successful[k].amount = << >> =>
                      amountOrZero(cl.result.successful[k]) = 0
            /\ Len(sent) <= 1
            /\ \A k \in 1..Len(sent) :
                  /\ sent[k].total_amount = SumOf(cl.transactionsToSave)
                  /\ cl.skippedCount = 0 =>
                        sent[k].total_amount = SumOf(cl.result.successful)
            /\ \A b \in 1..Len(batches) :
                  (cl.batchId # 0 /\ batches[b].id = cl.batchId) =>
                      batches[b].total_amount = SumOf(cl.transactionsToSave)

(* C18's case: a call that skipped a transaction with an amount and saved *)
(* one with an amount and one without has stored a batch record whose     *)
(* total is the amount of the one, less than the total of the result      *)
C18_Witness ==
    /\ Succeeded(calls[1])
    /\ calls[1].ret.skippedCount >= 1
    /\ \E k \in 1..Len(calls[1].transactionsToSave) :
          calls[1].transactionsToSave[k].amount = << >>
    /\ \E b \in 1..Len(batches) :
          /\ batches[b].id = calls[1].ret.batchId
          /\ batches[b].total_amount > 0
          /\ batches[b].total_amount < StatsPanelTotal(calls[1].result)

----------------------------------------------------------------------------
(* AppLayout: handleDataSubmit and the matching of a transaction against  *)
(* the rows of customer_mappings.  The component reads the records by     *)
(* the fields userId, refId, clientName, ... of the ParsedTransaction of  *)
(* src/unnamed/part_003; identifiers are short strings here, with '' as   *)
(* "" and null as "null".                                                 *)

(* a value that is false in a condition *)
falsy(v) == v \in {"", "null"}

(* a || b *)
or(a, b) == IF falsy(a) THEN b ELSE a

(* lines 45-56: the predicate given to find *)
matches(m, t) ==
    \/ ~falsy(m.member_id) /\ m.member_id = t.userId
    \/ ~falsy(m.ref_id) /\ m.ref_id = t.refId
    \/ /\ ~falsy(m.account_number)
       /\ m.account_number = t.userId \/ m.account_number = t.refId

RECURSIVE findFrom(_, _, _)
findFrom(list, t, k) ==
    IF k > Len(list) THEN 0
    ELSE IF matches(list[k], t) THEN k
    ELSE findFrom(list, t, k + 1)

(* line 44: Array.prototype.find, as the index of the element found, 0    *)
(* for undefined                                                          *)
find(list, t) == findFrom(list, t, 1)

(* a record that also takes the member id of the mapping as user id *)
overlayWithUserId(t, mapping) ==
    [t EXCEPT
        !.clientName = or(mapping.customer_name, ""),
        !.memberId = or(mapping.member_id, ""),
        !.userId = or(mapping.member_id, t.userId),
        !.emailAddress = or(mapping.email, t.emailAddress),
        !.accountNumber =
            or(mapping.account_number,
               or(t.accountNumber,
                  IF mapping.member_id = t.userId THEN t.userId ELSE "")),
        !.productName = or(mapping.loan_product, t.productName),
        !.comment = IF ~falsy(mapping.customer_name)
                    THEN "Mapped to " \o mapping.customer_name
                    ELSE t.comment]

(* lines 60-68: the record returned for a match *)
overlay(t, mapping) ==
    [t EXCEPT
        !.clientName = or(mapping.customer_name, ""),
        !.memberId = or(mapping.member_id, ""),
        !.emailAddress = or(mapping.email, t.emailAddress),
        !.accountNumber =
            or(mapping.account_number,
               or(t.accountNumber,
                  IF mapping.member_id = t.userId THEN t.userId ELSE "")),
        !.productName = or(mapping.loan_product, t.productName),
        !.comment = IF ~falsy(mapping.customer_name)
                    THEN "Mapped to " \o mapping.customer_name
                    ELSE t.comment]


(* a callback that overlays the first mapping of the list, match or not *)
applyFirstMapping(list, t) == overlay(t, list[1])

(* lines 43-71: the callback given to map *)
applyMapping(list, t) ==
    LET k == find(list, t)
    IN  IF k # 0 THEN overlay(t, list[k]) ELSE t

(* Rows of customer_mappings: one keyed by member id, one that holds the  *)
(* same value as account number, one keyed by reference id, one without   *)
(* a name that holds the reference as account number; the second has an   *)
(* e-mail address and a loan product                                      *)
MappingRow(member_id, ref_id, account_number, customer_name, loan_product) ==
    [member_id |-> member_id, ref_id |-> ref_id,
     account_number |-> account_number, customer_name |-> customer_name,
     email |-> "null", loan_product |-> loan_product]

MappingRows ==
    {MappingRow("U1", "null", "null", "ALICE", "null"),
     [MappingRow("M2", "null", "U1", "BOB", "Loan")
         EXCEPT !.email = "bob@saccos.tz"],
     MappingRow("M3", "R1", "", "CAROL", "null"),
     MappingRow("M4", "", "R1", "null", "null")}

MaxMappings == 3

(* the lists of at most n different rows, in every order *)
RECURSIVE MappingLists(_)
MappingLists(n) ==
    IF n = 0 THEN {<< >>}
    ELSE LET S == MappingLists(n - 1)
             Unused(l) == {m \in MappingRows : \A k \in 1..Len(l) : l[k] # m}
         IN  S \cup UNION {{Append(l, m) : m \in Unused(l)} : l \in S}

(* Successful records as the parser of part_003 returns them *)
Parsed(userId, refId, accountNumber) ==
    [clientName |-> userId, memberId |-> "", refId |-> refId,
     userId |-> userId, emailAddress |-> "", productName |-> "",
     accountNumber |-> accountNumber, amount |-> "0.00",
     transactionDate |-> "20.01.2026",
     comment |-> "", rawLine |-> userId \o " " \o refId, isValid |-> TRUE]

ParsedRecords ==
    {Parsed("U1", "R1", ""), Parsed("U1", "R9", "U1"),
     Parsed("U9", "R1", ""), Parsed("", "", "")}

MaxRecords == 2

RECURSIVE RecordLists(_)
RecordLists(n) ==
    IF n = 0 THEN {<< >>}
    ELSE LET S == RecordLists(n - 1)
         IN  S \cup {Append(l, t) : l \in S, t \in ParsedRecords}

AppResults ==
    {[successful |-> l, failed |-> << >>, totalLines |-> Len(l),
      successCount |-> Len(l), failCount |-> 0, bankType |-> bank] :
        l \in RecordLists(MaxRecords), bank \in BankTypes}

InitApp ==
    /\ AppIdle
    /\ CacheIdle
    /\ SaveIdle
    /\ ParserIdle

(* lines 23-30: the mappings fetched on mount arrive *)
loadMappings ==
    /\ appMappings = << >>
    /\ appMappings' \in MappingLists(MaxMappings) \ {<< >>}
    /\ UNCHANGED <<pc, bankType, lineVars, parseVars, saveVars, cacheVars,
                   parseResult, transactions, dataSubmit, cloudSave,
                   exported>>

(* lines 32-39: the call starts, with the mappings of the render that     *)
(* made the callback, and waits; r is what parseTransactions will return *)
(* for the data                                                           *)
handleDataSubmit(r) ==
    /\ dataSubmit.pc # "waiting"
    /\ dataSubmit' = [pc |-> "waiting", result |-> r,
                      customerMappings |-> appMappings]
    /\ UNCHANGED <<pc, bankType, lineVars, parseVars, saveVars, cacheVars,
                   appMappings, parseResult, transactions, cloudSave,
                   exported>>

(* lines 39-85: after the delay *)
DataSubmitResume ==
    /\ dataSubmit.pc = "waiting"
    /\ LET r == dataSubmit.result
           customerMappings_ == dataSubmit.customerMappings
           mapped == IF Len(customerMappings_) > 0
                     THEN [k \in 1..Len(r.successful) |->
                              applyMapping(customerMappings_,
                                           r.successful[k])]
                     ELSE r.successful
       IN  /\ parseResult' = [r EXCEPT !.successful = mapped]
           /\ transactions' = mapped
    /\ dataSubmit' = [dataSubmit EXCEPT !.pc = "done"]
    /\ UNCHANGED <<pc, bankType, lineVars, parseVars, saveVars, cacheVars,
                   appMappings, cloudSave, exported>>

NextApp ==
    \/ loadMappings
    \/ \E r \in AppResults : handleDataSubmit(r)
    \/ DataSubmitResume

SpecApp == InitApp /\ [][NextApp]_vars

(* Editing, saving and exporting the transactions of one statement.  Of  *)
(* the component's state, isProcessing, isSaving, saveMessage, history    *)
(* and cloudRefreshTrigger are left out: no handler reads them to decide  *)
(* what is edited, saved or exported.                                     *)

(* the cells that are edited and the text typed into them *)
EditFields == {"clientName", "amount"}

EditValues == {"EDITED", ""}

(* an edit that writes the field into every record of the list *)
editEveryRecord(prev, index, field, value) ==
    [k \in 1..Len(prev) |-> [prev[k] EXCEPT ![field] = value]]

(* lines 114-118: a copy of the list in which the record at index is a    *)
(* copy of the old one with the field replaced                            *)
editRecord(prev, index, field, value) ==
    [prev EXCEPT ![index + 1] = [prev[index + 1] EXCEPT ![field] = value]]

(* lines 113-119, for a row of the table *)
handleEditTransaction(index, field, value) ==
    /\ index < Len(transactions)
    /\ transactions' = editRecord(transactions, index, field, value)
    /\ UNCHANGED <<pc, bankType, lineVars, parseVars, saveVars, cacheVars,
                   appMappings, parseResult, dataSubmit, cloudSave,
                   exported>>

(* lines 88-98: nothing is sent without a ParseResult that has a          *)
(* successful transaction; otherwise parseResult goes to                  *)
(* saveBatchToDatabase                                                     *)
handleSaveToCloud ==
    /\ cloudSave' = IF parseResult = NoResult THEN cloudSave
                    ELSE IF parseResult.successCount = 0 THEN cloudSave
                    ELSE parseResult
    /\ UNCHANGED <<pc, bankType, lineVars, parseVars, saveVars, cacheVars,
                   appMappings, parseResult, transactions, dataSubmit,
                   exported>>

(* lines 121-125 *)
handleDownloadExcel ==
    /\ exported' = IF Len(transactions) > 0 THEN transactions ELSE exported
    /\ UNCHANGED <<pc, bankType, lineVars, parseVars, saveVars, cacheVars,
                   appMappings, parseResult, transactions, dataSubmit,
                   cloudSave>>

(* one statement is submitted; its rows are then edited, saved and        *)
(* exported in any order                                                   *)
NextEdit ==
    \/ \E r \in AppResults : dataSubmit.pc = "idle" /\ handleDataSubmit(r)
    \/ DataSubmitResume
    \/ \E index \in 0..(MaxRecords - 1), field \in EditFields,
          value \in EditValues :
            handleEditTransaction(index, field, value)
    \/ handleSaveToCloud
    \/ handleDownloadExcel

SpecEdit == InitApp /\ [][NextEdit]_vars

----------------------------------------------------------------------------
(* Properties of the identity resolver, checked under SpecApp *)

byMemberId(m, t) == ~falsy(m.member_id) /\ m.member_id = t.userId

byRefId(m, t) == ~falsy(m.ref_id) /\ m.ref_id = t.refId

byAccountNumber(m, t) ==
    /\ ~falsy(m.account_number)
    /\ m.account_number = t.userId \/ m.account_number = t.refId

onlyByAccountNumber(m, t) ==
    byAccountNumber(m, t) /\ ~byMemberId(m, t) /\ ~byRefId(m, t)

(* C5 as stated: when handleDataSubmit has run, for every successful      *)
(* record for which the list holds a mapping matching by member id and    *)
(* another matching only by account number, the record shown is the       *)
(* overlay of a mapping that matches it by member id.                     *)
C5_MemberIdPreferred ==
    dataSubmit.pc = "done" =>
        LET list == dataSubmit.customerMappings
            raw == dataSubmit.result.successful
        IN  \A k \in 1..Len(raw) :
                (/\ \E i \in 1..Len(list) : byMemberId(list[i], raw[k])
                 /\ \E j \in 1..Len(list) : onlyByAccountNumber(list[j], raw[k]))
                =>
                \E i \in 1..Len(list) :
                    /\ byMemberId(list[i], raw[k])
                    /\ transactions[k] = overlay(raw[k], list[i])

(* C16: handleDataSubmit passes through what it does not match.  The     *)
(* list shown has one record per successful record of the parser, in the  *)
(* same order, and a record that no mapping matches by member id,         *)
(* reference id or account number is the parsed record, field for field.  *)
C16_UnmatchedPassThrough ==
    dataSubmit.pc = "done" =>
        LET list == dataSubmit.customerMappings
            raw == dataSubmit.result.successful
        IN  /\ Len(transactions) = Len(raw)
            /\ parseResult.successful = transactions
            /\ \A k \in 1..Len(raw) :
                  /\ transactions[k].rawLine = raw[k].rawLine
                  /\ (\A i \in 1..Len(list) : ~matches(list[i], raw[k]))
                     => transactions[k] = raw[k]

(* C16's case: of two records submitted with a list of mappings, the      *)
(* first was matched and overlaid, the second matched nothing and is      *)
(* shown as parsed                                                        *)
C16_Witness ==
    /\ dataSubmit.pc = "done"
    /\ Len(dataSubmit.customerMappings) > 0
    /\ Len(transactions) = 2
    /\ transactions[1] # dataSubmit.result.successful[1]
    /\ \A i \in 1..Len(dataSubmit.customerMappings) :
          ~matches(dataSubmit.customerMappings[i],
                   dataSubmit.result.successful[2])
    /\ transactions[2] = dataSubmit.result.successful[2]

(* the fields that lines 62-67 assign *)
Overlaid ==
    {"clientName", "memberId", "emailAddress", "accountNumber",
     "productName", "comment"}

(* every field of t outside the set has in u the value it has in t *)
KeepsAllBut(fields, t, u) ==
    /\ DOMAIN u = DOMAIN t
    /\ \A f \in DOMAIN t \ fields : u[f] = t[f]

(* C17 as stated: a matched record differs from the parsed one in         *)
(* customer name, member id and product label at most; reference id,      *)
(* user id, amount, date, comment, raw line and validity are the parsed   *)
(* ones.                                                                  *)
C17_OnlyNameIdProduct ==
    dataSubmit.pc = "done" =>
        \A k \in 1..Len(dataSubmit.result.successful) :
            LET list == dataSubmit.customerMappings
                t == dataSubmit.result.successful[k]
            IN  find(list, t) # 0 =>
                    KeepsAllBut({"clientName", "memberId", "productName"},
                                t, transactions[k])

(* C17, amended: a matched record takes from the mapping the customer     *)
(* name and the member id (empty when the mapping has none), and, when    *)
(* the mapping has them, the e-mail address, the account number and the   *)
(* product; its comment becomes "Mapped to <name>" when the mapping has   *)
(* a name; the account number falls back to the parsed one, then to the   *)
(* user id when that is the member id of the mapping.  Reference id,      *)
(* user id, amount, date, raw line and validity are the parsed ones.      *)
C17_OverlayFrame ==
    dataSubmit.pc = "done" =>
        \A k \in 1..Len(dataSubmit.result.successful) :
            LET list == dataSubmit.customerMappings
                t == dataSubmit.result.successful[k]
                u == transactions[k]
                i == find(list, t)
            IN  i # 0 =>
                    LET m == list[i]
                    IN  /\ KeepsAllBut(Overlaid, t, u)
                        /\ u.clientName = IF falsy(m.customer_name) THEN ""
                                          ELSE m.customer_name
                        /\ u.memberId = IF falsy(m.member_id) THEN ""
                                        ELSE m.member_id
                        /\ u.productName = IF falsy(m.loan_product)
                                           THEN t.productName
                                           ELSE m.loan_product
                        /\ u.emailAddress = IF falsy(m.email)
                                            THEN t.emailAddress
                                            ELSE m.email
                        /\ u.comment = IF falsy(m.customer_name)
                                       THEN t.comment
                                       ELSE "Mapped to " \o m.customer_name
                        /\ u.accountNumber =
                              IF ~falsy(m.account_number)
                              THEN m.account_number
                              ELSE IF ~falsy(t.accountNumber)
                              THEN t.accountNumber
                              ELSE IF m.member_id = t.userId THEN t.userId
                              ELSE ""

(* C17's case: a record matched by the mapping that has a name, an        *)
(* e-mail address and a product is shown with all three and with a new    *)
(* comment, its reference id, amount and date being the parsed ones       *)
C17_Witness ==
    /\ dataSubmit.pc = "done"
    /\ Len(transactions) > 0
    /\ transactions[1].clientName = "BOB"
    /\ transactions[1].emailAddress = "bob@saccos.tz"
    /\ transactions[1].productName = "Loan"
    /\ transactions[1].comment = "Mapped to BOB"
    /\ dataSubmit.result.successful[1].comment = ""
    /\ transactions[1].refId = dataSubmit.result.successful[1].refId
    /\ transactions[1].amount = dataSubmit.result.successful[1].amount
    /\ transactions[1].transactionDate =
          dataSubmit.result.successful[1].transactionDate

----------------------------------------------------------------------------
(* customerMappingService: fetchCustomerMappings and its cache in         *)
(* localStorage.  An item is << >> when absent and <<value>> when stored. *)

(* line 13 (24 * 60 * 60 * 1000 in the source), in ticks of the clock *)
CACHE_DURATION == 2

(* the clock stops at MaxTime *)
MaxTime == 4

(* String.prototype.split(sep) for a one-character separator *)
RECURSIVE splitOn(_, _, _, _)
splitOn(s, sep, i, cur) ==
    IF i > Len(s) THEN <<cur>>
    ELSE IF s[i] = sep THEN <<cur>> \o splitOn(s, sep, i + 1, << >>)
    ELSE splitOn(s, sep, i + 1, Append(cur, s[i]))

(* lines 23-37: the rows after the header *)
RECURSIVE parseRows(_, _)
parseRows(csvLines, i) ==
    IF i > Len(csvLines) THEN << >>
    ELSE LET ln == trim(csvLines[i])
             parts == splitOn(ln, ",", 1, << >>)
         IN  IF ln = << >> THEN parseRows(csvLines, i + 1)
             ELSE IF Len(parts) >= 4
             THEN <<[memberId |-> trim(parts[1]),
                     customerName |-> trim(parts[2]),
                     phoneNumber |-> trim(parts[3]),
                     transactionNumber |-> trim(parts[4])]>>
                  \o parseRows(csvLines, i + 1)
             ELSE parseRows(csvLines, i + 1)

(* lines 18-40 *)
parseCSV(csvText) == parseRows(splitOn(trim(csvText), "\n", 1, << >>), 2)

(* Number.prototype.toString of a non-negative integer *)
RECURSIVE toString(_)
toString(n) ==
    LET d == <<"0","1","2","3","4","5","6","7","8","9">>[(n % 10) + 1]
    IN  IF n < 10 THEN <<d>> ELSE Append(toString(n \div 10), d)

DigitValue(ch) == CHOOSE v \in 0..9 : toString(v) = <<ch>>

(* parseInt(s, 10) of a string that starts with a digit *)
RECURSIVE parseIntFrom(_, _, _)
parseIntFrom(s, i, acc) ==
    IF i > Len(s) \/ s[i] \notin Digit THEN acc
    ELSE parseIntFrom(s, i + 1, 10 * acc + DigitValue(s[i]))

parseInt(s) == parseIntFrom(s, 1, 0)

(* JSON.stringify and JSON.parse of a list of mappings: the text is kept  *)
(* as the value it denotes                                                *)
stringify(mappings) == [json |-> mappings]

parse(text) == text.json

(* a test of expiry that already fails at the expiry time itself *)
expiredFrom(time, expiryTime) == time >= expiryTime

(* line 97: Date.now() > expiryTime *)
expired(time, expiryTime) == time > expiryTime

(* lines 88-103: << >> for null, <<mappings>> otherwise *)
getCachedMappings(storage, time) ==
    IF storage.cache = NoItem \/ storage.expiry = NoItem THEN << >>
    ELSE IF expired(time, parseInt(storage.expiry[1])) THEN << >>
    ELSE <<parse(storage.cache[1])>>

(* lines 108-112 *)
cacheMappings(mappings, time) ==
    [cache |-> <<stringify(mappings)>>,
     expiry |-> <<toString(time + CACHE_DURATION)>>]

(* a fallback that never looks at the stored copy *)
fallbackEmpty(storage) == << >>

(* lines 75-81: what the catch returns *)
fallback(storage) ==
    IF storage.cache # NoItem THEN parse(storage.cache[1]) ELSE << >>

(* The sheet as exported: a header and a row; a blank line, a padded row  *)
(* and a row that is too short; a header alone                            *)
CsvTexts ==
    {<<"h","\n","M","C","2","4","1","E","P","W",",","J","O","H","N",",",
       "1",",","2">>,
     <<"h","\n","\n"," ","M","C","9","9","9","A","A","A"," ",","," ","M",
       "A","R","Y"," ",",","1",",","2","\n","b","a","d",",","r","o","w">>,
     <<"h">>}

(* lines 45-57: the call runs to the cached copy or to the fetch *)
fetchCustomerMappings(forceRefresh) ==
    /\ mappingsCall.pc \in {"idle", "done"}
    /\ LET cached == IF forceRefresh THEN << >>
                     ELSE getCachedMappings(localStorage, now)
           call == [IdleFetch EXCEPT !.forceRefresh = forceRefresh,
                                     !.at = now, !.seen = cachedAt]
       IN  mappingsCall' =
               IF cached # << >>
               THEN [call EXCEPT !.pc = "done", !.ret = cached[1]]
               ELSE [call EXCEPT !.pc = "awaitFetch", !.fetched = TRUE]
    /\ UNCHANGED <<pc, bankType, lineVars, parseVars, saveVars, appVars, now,
                   localStorage, cachedAt>>

(* lines 71-82: the catch, reached from the await that failed *)
Caught(call, await) ==
    [call EXCEPT !.pc = "done", !.failed = await,
                 !.held = localStorage.cache,
                 !.ret = fallback(localStorage)]

(* lines 57-61: fetch settles: a response that is ok, one that is not,    *)
(* or a rejection                                                         *)
FetchResponse(outcome) ==
    /\ mappingsCall.pc = "awaitFetch"
    /\ mappingsCall' = IF outcome = "ok"
                       THEN [mappingsCall EXCEPT !.pc = "awaitText"]
                       ELSE Caught(mappingsCall, "fetch")
    /\ UNCHANGED <<pc, bankType, lineVars, parseVars, saveVars, appVars, now,
                   localStorage, cachedAt>>

(* lines 63-70: response.text() resolves with the sheet *)
TextResponse(csvText) ==
    /\ mappingsCall.pc = "awaitText"
    /\ LET mappings == parseCSV(csvText)
       IN  /\ localStorage' = cacheMappings(mappings, now)
           /\ mappingsCall' = [mappingsCall EXCEPT !.pc = "done",
                                                   !.ret = mappings]
    /\ cachedAt' = now
    /\ UNCHANGED <<pc, bankType, lineVars, parseVars, saveVars, appVars, now>>

(* line 63: response.text() rejects *)
TextRejected ==
    /\ mappingsCall.pc = "awaitText"
    /\ mappingsCall' = Caught(mappingsCall, "text")
    /\ UNCHANGED <<pc, bankType, lineVars, parseVars, saveVars, appVars, now,
                   localStorage, cachedAt>>

(* lines 148-152 *)
clearMappingsCache ==
    /\ localStorage # [cache |-> NoItem, expiry |-> NoItem]
    /\ localStorage' = [cache |-> NoItem, expiry |-> NoItem]
    /\ cachedAt' = -1
    /\ UNCHANGED <<pc, bankType, lineVars, parseVars, saveVars, appVars, now,
                   mappingsCall>>

(* time passes *)
Tick ==
    /\ now < MaxTime
    /\ now' = now + 1
    /\ UNCHANGED <<pc, bankType, lineVars, parseVars, saveVars, appVars,
                   localStorage, mappingsCall, cachedAt>>

InitCache ==
    /\ CacheIdle
    /\ AppIdle
    /\ SaveIdle
    /\ ParserIdle

NextCache ==
    \/ \E forceRefresh \in BOOLEAN : fetchCustomerMappings(forceRefresh)
    \/ \E outcome \in {"ok", "notOk", "reject"} : FetchResponse(outcome)
    \/ \E csvText \in CsvTexts : TextResponse(csvText)
    \/ TextRejected
    \/ clearMappingsCache
    \/ Tick

SpecCache == InitCache /\ [][NextCache]_vars

----------------------------------------------------------------------------
(* Properties of fetchCustomerMappings, checked under SpecCache *)

(* C14: a call whose fetch failed (fetch rejected, response not ok, or    *)
(* its text not readable) has ended and returned the copy that the cache  *)
(* held at that moment, expired or not, and the empty list when the cache *)
(* held none.                                                             *)
C14_FailedFetchFallsBack ==
    mappingsCall.failed # "none" =>
        /\ mappingsCall.pc = "done"
        /\ mappingsCall.fetched
        /\ mappingsCall.held # NoItem =>
              mappingsCall.ret = parse(mappingsCall.held[1])
        /\ mappingsCall.held = NoItem => mappingsCall.ret = << >>

(* C14's case: a call made after the expiry of a cached copy, whose fetch *)
(* failed, returned the mappings of the expired copy                      *)
C14_Witness ==
    /\ mappingsCall.failed = "fetch"
    /\ ~mappingsCall.forceRefresh
    /\ mappingsCall.seen # -1
    /\ mappingsCall.at > mappingsCall.seen + CACHE_DURATION
    /\ mappingsCall.held # NoItem
    /\ mappingsCall.ret # << >>

(* C15: the cache holds a copy exactly when a fetch has succeeded since   *)
(* it was last cleared, at time cachedAt.  A call made without            *)
(* forceRefresh at a time <= cachedAt + CACHE_DURATION ends at once with  *)
(* the cached mappings and without a fetch; a call made later, or with    *)
(* forceRefresh, or with no copy in the cache, performs the fetch.        *)
C15_CacheExpiry ==
    [][/\ (cachedAt' = -1) <=> (localStorage'.cache = NoItem)
       /\ (mappingsCall.pc \in {"idle", "done"} /\ mappingsCall' # mappingsCall)
          =>
          IF /\ ~mappingsCall'.forceRefresh
             /\ cachedAt # -1
             /\ now <= cachedAt + CACHE_DURATION
          THEN /\ mappingsCall'.pc = "done"
               /\ ~mappingsCall'.fetched
               /\ mappingsCall'.ret = parse(localStorage.cache[1])
          ELSE /\ mappingsCall'.pc = "awaitFetch"
               /\ mappingsCall'.fetched
      ]_vars

(* C15's case: a call made exactly CACHE_DURATION after the fetch that    *)
(* filled the cache was served from the cache                             *)
C15_Witness ==
    /\ mappingsCall.pc = "done"
    /\ ~mappingsCall.forceRefresh
    /\ ~mappingsCall.fetched
    /\ mappingsCall.seen # -1
    /\ mappingsCall.at = mappingsCall.seen + CACHE_DURATION

----------------------------------------------------------------------------
(* Properties of the writes of saveBatchToDatabase, checked under SpecSave *)

IsBatchInsert(h) == h.request.op = "insertBatch"

(* the inserts of rows the call has asked for so far, answered or not *)
RowPayloads(cl) ==
    {cl.history[k].request.payload :
        k \in {n \in 1..Len(cl.history) : IsRowInsert(cl.history[n])}}
    \cup (IF cl.awaiting.op = "insertRows" THEN {cl.awaiting.payload} ELSE {})

(* the insert of the batch record was answered with the new record *)
BatchInserted(cl) ==
    \E k \in 1..Len(cl.history) :
        IsBatchInsert(cl.history[k]) /\ cl.history[k].outcome.kind = "ok"

(* the insert of the batch record was answered with an error or threw *)
BatchInsertFailed(cl) ==
    \E k \in 1..Len(cl.history) :
        IsBatchInsert(cl.history[k]) /\ cl.history[k].outcome.kind # "ok"

(* C27: a call asks for an insert of rows only after its insert of the    *)
(* batch record was answered with the record, and every row it sends      *)
(* carries the id of that record; when the insert of the batch record     *)
(* fails, the call sends no row and returns a non-null error, batchId     *)
(* null and skippedCount 0.                                               *)
C27_BatchRecordBeforeRows ==
    \A c \in Calls :
        LET cl == calls[c]
        IN  /\ RowPayloads(cl) # {} =>
                  /\ BatchInserted(cl)
                  /\ \E k \in 1..Len(batches) : batches[k].id = cl.batchId
                  /\ \A rows \in RowPayloads(cl) :
                         \A k \in 1..Len(rows) : rows[k].batch_id = cl.batchId
            /\ \A k \in 1..Len(cl.history) :
                  IsRowInsert(cl.history[k]) =>
                      \E m \in 1..(k - 1) :
                          /\ IsBatchInsert(cl.history[m])
                          /\ cl.history[m].outcome.kind = "ok"
            /\ BatchInsertFailed(cl) =>
                  /\ RowPayloads(cl) = {}
                  /\ cl.pc = "done"
                  /\ cl.ret.error # "null"
                  /\ cl.ret.batchId = 0
                  /\ cl.ret.skippedCount = 0

(* C27's case: the call has written a valid row and a failed record in    *)
(* two inserts, both with the id of the batch record it created           *)
C27_Witness ==
    /\ calls[1].pc = "done"
    /\ BatchInserted(calls[1])
    /\ Cardinality(RowPayloads(calls[1])) >= 2
    /\ \E k \in 1..Len(store) :
          store[k].batch_id = calls[1].batchId /\ store[k].is_valid
    /\ \E k \in 1..Len(store) :
          store[k].batch_id = calls[1].batchId /\ ~store[k].is_valid
    /\ calls[1].ret.batchId = calls[1].batchId

(* the check of the call went through and the store returned the key of   *)
(* every successful transaction of the batch                               *)
AllDuplicates(cl) ==
    /\ CheckCompleted(cl)
    /\ \A k \in 1..Len(cl.result.successful) :
          cl.result.successful[k].invoiceNo \in ReturnedKeys(cl)

(* C28: when the key of every successful transaction of the batch is      *)
(* already stored (also when the batch has no successful transaction),    *)
(* the call asks for no insert, neither of a batch record nor of rows,    *)
(* the failed records included, and returns batchId null, error null and  *)
(* skippedCount equal to the number of successful transactions.           *)
C28_AllDuplicatesNoInsert ==
    \A c \in Calls :
        LET cl == calls[c]
        IN  AllDuplicates(cl) =>
                /\ cl.pc = "done"
                /\ \A k \in 1..Len(cl.history) : ~IsInsert(cl.history[k])
                /\ batches = PriorBatches(store)
                /\ \A k \in 1..Len(store) : store[k] \in PriorRows
                /\ cl.ret.batchId = 0
                /\ cl.ret.error = "null"
                /\ cl.ret.skippedCount = Len(cl.result.successful)

(* C28's case: a batch of two successful transactions, both stored        *)
(* already, and a failed record: the call is over with skippedCount 2     *)
C28_Witness ==
    /\ AllDuplicates(calls[1])
    /\ Len(calls[1].result.successful) = 2
    /\ Len(calls[1].result.failed) = 1
    /\ calls[1].pc = "done"
    /\ calls[1].ret.skippedCount = 2
    /\ calls[1].ret.batchId = 0

----------------------------------------------------------------------------
(* Properties of the transactions without a key, checked under            *)
(* SpecResubmit                                                            *)

NoKey(t) == t.invoiceNo = << >>

(* C29: the existence queries of a call never carry the empty key, and    *)
(* once the check has gone through, every successful transaction with an  *)
(* empty key is in the write set and none of them is counted as skipped,  *)
(* on a first submission and on a later one alike.                        *)
C29_EmptyKeyAlwaysWritten ==
    \A c \in Calls :
        LET cl == calls[c]
            queries == CheckRequests(cl)
        IN  /\ \A q \in 1..Len(queries) :
                  \A k \in 1..Len(queries[q]) : queries[q][k] # << >>
            /\ CheckCompleted(cl) =>
                  /\ SelectSeq(cl.transactionsToSave, NoKey)
                        = SelectSeq(cl.result.successful, NoKey)
                  /\ cl.skippedCount + Len(SelectSeq(cl.result.successful, NoKey))
                        <= Len(cl.result.successful)
                  /\ cl.pc = "done" =>
                        cl.ret.skippedCount
                            + Len(SelectSeq(cl.result.successful, NoKey))
                          <= Len(cl.result.successful)

(* C29's case: the batch is submitted a second time when the table holds  *)
(* the rows of the first submission, the one without key among them: the  *)
(* transaction with a key is skipped and the one without is written again *)
C29_Witness ==
    /\ calls[1].pc = "done"
    /\ calls[2].pc = "done"
    /\ AllOk(calls[1])
    /\ AllOk(calls[2])
    /\ Len(SelectSeq(calls[2].result.successful, NoKey)) = 1
    /\ Len(calls[2].result.successful) = 2
    /\ calls[2].ret.skippedCount = 1
    /\ Len(calls[2].transactionsToSave) = 1
    /\ Cardinality({k \in 1..Len(store) :
                        store[k].is_valid /\ store[k].ref_id = << >>}) = 2

----------------------------------------------------------------------------
(* Properties of two concurrent calls of saveBatchToDatabase, checked     *)
(* under SpecRace                                                          *)

(* the keys that one successful transaction of the batch carries, and     *)
(* only one                                                                *)
KeysOfOne(r) ==
    {r.successful[k].invoiceNo : k \in
        {n \in 1..Len(r.successful) :
            /\ r.successful[n].invoiceNo # << >>
            /\ \A m \in 1..Len(r.successful) :
                   r.successful[m].invoiceNo = r.successful[n].invoiceNo
                       => m = n}}

(* the valid rows of the table with the key *)
ValidRowsWith(key) ==
    {k \in 1..Len(store) : store[k].is_valid /\ store[k].ref_id = key}

(* C25: when two calls save batches that share a key and the table did    *)
(* not hold it, at most one valid row with the key is stored, however the *)
(* two calls interleave (every store call answered without error).        *)
C25_AtMostOneRowPerKey ==
    (/\ calls[1].pc # "idle" /\ AllOk(calls[1])
     /\ calls[2].pc # "idle" /\ AllOk(calls[2]))
    =>
        \A key \in KeysOfOne(calls[1].result) :
            Cardinality(ValidRowsWith(key)) <= 1

----------------------------------------------------------------------------
(* Properties of the edits, checked under SpecEdit *)

(* the step is an edit that changed the list: the list shown changes      *)
(* while no statement is being processed                                   *)
EditStep == transactions' # transactions /\ dataSubmit' = dataSubmit

(* the lists differ in the field f of the record at position i, and in    *)
(* nothing else                                                            *)
DiffersOnlyAt(old, new, i, f) ==
    /\ Len(new) = Len(old)
    /\ \A j \in 1..Len(old) : j # i => new[j] = old[j]
    /\ DOMAIN new[i] = DOMAIN old[i]
    /\ \A g \in DOMAIN old[i] : g # f => new[i][g] = old[i][g]
    /\ new[i][f] # old[i][f]

(* C30: an edit changes one field of one record of the list that is       *)
(* exported and nothing else of it, and leaves the stored ParseResult as   *)
(* it was; the ParseResult is what parseTransactions and the mappings      *)
(* made of the statement, whatever was edited since; a save hands the      *)
(* stored ParseResult to saveBatchToDatabase and a download hands the      *)
(* edited list to downloadExcel.                                           *)
C30_EditsOnlyTheExportList ==
    /\ [][EditStep =>
            /\ \E i \in 1..Len(transactions), f \in EditFields :
                  DiffersOnlyAt(transactions, transactions', i, f)
            /\ parseResult' = parseResult]_vars
    /\ [](dataSubmit.pc = "done" => parseResult = dataSubmit.result)
    /\ [][cloudSave' # cloudSave => cloudSave' = parseResult]_vars
    /\ [][exported' # exported => exported' = transactions]_vars

(* C30's case: the amount of the second of two records was edited, the    *)
(* statement was then saved and exported: the save got the amounts as     *)
(* parsed and the export the edited one                                    *)
C30_Witness ==
    /\ dataSubmit.pc = "done"
    /\ Len(transactions) = 2
    /\ DiffersOnlyAt(parseResult.successful, transactions, 2, "amount")
    /\ transactions[2].amount = "EDITED"
    /\ cloudSave = parseResult
    /\ cloudSave.successful[2].amount = "0.00"
    /\ exported = transactions

====
